---------------------------- MODULE Spec2Model ----------------------------
(***************************************************************************)
(* A model of dgen-ping: the telemetry store (src/db.py, class Database)   *)
(* and the request proxy (src/proxy.py, class ProxyService).               *)
(*                                                                         *)
(* Every coroutine is a task with a position (pc).  The tasks run on one   *)
(* asyncio event loop, so a step of the model is the code a task runs      *)
(* between two suspension points (an await that really suspends).          *)
(***************************************************************************)
EXTENDS Integers, Sequences, FiniteSets, TLC

(***************************************************************************)
(* Bounds of the model.                                                    *)
(***************************************************************************)
\* number of record() / recordLifecycleEvent() calls made by the application
NumEvents == 2
\* number of top-level calls of Database.initialize() in one process
MaxInitCalls == 2

\* number of proxy_request calls
NumRequests == 2
\* settings.MAX_CONCURRENCY of the modelled deployment (default 500)
MAX_CONCURRENCY == 1
\* a settings.RETRY_ATTEMPTS large enough for the backoff to reach its cap
LongRetry == 7
\* sizes of the completions whose tokens are counted
MaxChars == 9
MaxWords == 3
\* requests the rate limiter sees
NumArrivals == 5
\* the largest settings.RATE_LIMIT tried
MaxRateLimit == 2
\* resolution of the clock
TicksPerSecond == 2

Events == 1..NumEvents
Requests == 1..NumRequests

\* rows and documents the store itself writes, beside the events' own
HeaderRow == 0                       \* writer.writeheader()
ConnFailedRow == NumEvents + 1       \* connection_database_connection_failed
ConnectedRow == NumEvents + 2        \* database_connected
MetricsDoc == NumEvents + 3          \* the document get_metrics() stores

(***************************************************************************)
(* Program constants.                                                      *)
(***************************************************************************)
\* Database._max_connection_attempts
max_connection_attempts == 3
\* the lifetime of the metrics cache, in seconds
METRICS_TTL == 60
\* the pause of initialize() before it tries again, in seconds
RECONNECT_DELAY == 2
\* the default of settings.RETRY_ATTEMPTS
DEFAULT_RETRY_ATTEMPTS == 3
\* the thread limit of ProxyService._executor
ExecutorThreadLimit == 32
\* the cap of the backoff, in seconds
BackoffCap == 10
\* the status codes proxy_request raises
HTTP_400_BAD_REQUEST == 400
HTTP_500_INTERNAL_SERVER_ERROR == 500
HTTP_503_SERVICE_UNAVAILABLE == 503
HTTP_200_OK == 200
\* the status of the validation error handler
HTTP_422_UNPROCESSABLE_ENTITY == 422
\* the longest prompt llm_completion accepts
MAX_PROMPT_LENGTH == 50000
\* the length of the rate limiter's window, in seconds
WINDOW_SECONDS == 60
\* the default of settings.RATE_LIMIT
DEFAULT_RATE_LIMIT == 120
\* the status of a rejected request
HTTP_429_TOO_MANY_REQUESTS == 429

VARIABLES
    \* ---- Database (src/db.py) ----
    use_csv_fallback,     \* Database._use_csv_fallback
    client,               \* Database._client is not None
    async_client,         \* Database._async_client is not None
    connection_attempts,  \* Database._connection_attempts
    csv_dir,              \* the directory settings.CSV_FALLBACK_DIR exists
    csvfile,              \* rows of telemetry_<today>.csv, <<>> when the file does not exist
    primary,              \* documents held by the MongoDB collections
    metrics_cache,        \* Database._metrics_cache
    metrics_age,          \* (now - _metrics_last_update).total_seconds(), at most 60
    metrics_reply,        \* the latest get_metrics() call and what it returned
    evpc,                 \* position of each log_telemetry / log_connection_event call
    evKind,               \* which of the two functions records the event
    evSawFallback,        \* the call found _use_csv_fallback set when it started
    evPrimaryFailed,      \* the call's primary write raised
    initpc,               \* position of Database.initialize()
    initCalls,            \* top-level calls of initialize() so far
    mpc,                  \* position of Database.get_metrics()
    primaryWhileFallback, \* a call started a primary operation with the flag set
    init_sleeps,          \* the arguments of asyncio.sleep in the latest initialize() call
    health                \* the latest answer of GET /health

storeVars == << use_csv_fallback, client, async_client, connection_attempts,
                csv_dir, csvfile, primary, metrics_cache, metrics_age, metrics_reply,
                evpc, evKind, evSawFallback, evPrimaryFailed, initpc, initCalls,
                mpc, primaryWhileFallback, init_sleeps, health >>

VARIABLES
    \* ---- ProxyService (src/proxy.py) and its callers ----
    retry_attempts,       \* RETRY_ATTEMPTS = settings.RETRY_ATTEMPTS
    load,                 \* number of requests the clients send
    faults,               \* the errors generate_content can raise
    prompts,              \* the prompts the clients send
    entries,              \* how proxy_request is reached: the HTTP endpoint, a direct call
    completions,          \* the values generate_content can return
    millis,               \* the values of int(time.time() * 1000) at which requests arrive
    telemetry_down,       \* db.log_telemetry may raise (primary and fallback write both fail)
    sem_value,            \* ProxyService._semaphore._value
    busy,                 \* worker threads of _executor running generate_content
    abandoned,            \* of these, the calls whose attempt has timed out
    rpc,                  \* position of each proxy_request call
    attempt,              \* the loop variable attempt
    emitted,              \* the telemetry events the call has handed to its log helpers, in order
    stored,               \* for each of them, whether db.log_telemetry returned normally
    result,               \* what the call returned or raised
    sleeps,               \* the arguments of asyncio.sleep, in order
    acquired,             \* times the call entered the semaphore
    released,             \* times the call left the semaphore
    calls,                \* invocations of generate_content for the call
    prompt,               \* payload.prompt
    via,                  \* how the request reached proxy_request
    mw_request_id,        \* request_id of TelemetryMiddleware.dispatch
    request_id,           \* request_id of proxy_request
    direct_request,       \* request_id of the direct_request event the middleware logged
    state_request_id,     \* request.state.request_id
    response_id           \* request_id in the body of the error response

configVars == << retry_attempts, load, faults, prompts, entries, completions, millis,
                 telemetry_down >>

entryVars == << prompt, via, mw_request_id, request_id, state_request_id >>

proxyVars == << configVars, sem_value, busy, abandoned, rpc, attempt, emitted, stored,
                result, sleeps, acquired, released, calls, entryVars, direct_request, response_id >>

VARIABLES
    \* ---- RateLimitMiddleware (src/middleware.py) ----
    rate_limit,           \* RateLimitMiddleware.rate_limit
    clients,              \* RateLimitMiddleware.clients
    now,                  \* time.time(), in ticks
    arrivals,             \* requests the middleware has seen
    latest,               \* each client's latest request and what became of it
    paths,                \* the url paths the clients request
    limited,              \* not settings.DEBUG: the middleware is installed
    gate,                 \* what the middleware did with each request of the proxy
    admitted,             \* per client, the times of the requests call_next got in the last 60 s
    alone                 \* per client, entry and answer had its requests been the only ones

rateVars == << rate_limit, clients, now, arrivals, latest, paths, limited, gate,
               admitted, alone >>

vars == << storeVars, proxyVars, rateVars >>

(***************************************************************************)
(* Database._log_to_csv: under the lock, the header row is written when    *)
(* the file does not exist yet, then the event's row is appended.  The     *)
(* lock is never held across a suspension point (the block under it has    *)
(* no await), so the whole append is one step.                             *)
(***************************************************************************)
\* a faulty variant of the append: the header is written before every row
LogToCsv_HeaderEachTime(file, row) == file \o << HeaderRow, row >>

LogToCsv(file, row) ==
    IF file = << >> THEN << HeaderRow, row >> ELSE Append(file, row)

\* Database._setup_csv_fallback: creates the directory when it is missing
SetupCsvFallback(dir) == TRUE

\* bookkeeping: a call that starts an operation on the primary backend while
\* the flag is set is remembered
StartsPrimary(seen, flag) == seen \/ flag

\* a metrics snapshot: its database_status and its requests_total
Snapshot(status, total) == [database_status |-> status, requests_total |-> total]

\* _metrics_cache = {}
EmptySnapshot == Snapshot("empty", 0)

\* what is remembered of a get_metrics() call: the age of the cache and the
\* cache when it was called, the backends it read, whether one of them
\* raised, the snapshot it returned and the age of that snapshot
Reply(age, before, source, failed, returned, snapshot_age) ==
    [age_at_call |-> age, before |-> before, source |-> source, failed |-> failed,
     returned |-> returned, snapshot_age |-> snapshot_age]

NoReply == Reply(0, EmptySnapshot, "none", FALSE, EmptySnapshot, 0)

\* an answer of GET /health, with the mode the store was in when it was asked
HealthAnswer(code, status, connected, fallback) ==
    [ asked |-> TRUE, status_code |-> code, status |-> status,
      connected |-> connected, fallback |-> fallback ]

NoHealth ==
    [ asked |-> FALSE, status_code |-> 0, status |-> "none",
      connected |-> FALSE, fallback |-> FALSE ]

InFile(row) == \E i \in 1..Len(csvfile) : csvfile[i] = row

StoreInit ==
    /\ use_csv_fallback = FALSE
    /\ client = FALSE
    /\ async_client = FALSE
    /\ connection_attempts = 0
    /\ csv_dir \in BOOLEAN
    /\ csvfile = << >>
    /\ primary = {}
    /\ metrics_cache = EmptySnapshot
    /\ metrics_age = METRICS_TTL
    /\ metrics_reply = NoReply
    /\ evpc = [e \in Events |-> "idle"]
    /\ evKind = [e \in Events |-> "none"]
    /\ evSawFallback = [e \in Events |-> FALSE]
    /\ evPrimaryFailed = [e \in Events |-> FALSE]
    /\ initpc = "idle"
    /\ initCalls = 0
    /\ mpc = "idle"
    /\ primaryWhileFallback = FALSE
    /\ init_sleeps = << >>
    /\ health = NoHealth

(***************************************************************************)
(* Database.log_telemetry and Database.log_connection_event.               *)
(***************************************************************************)
\* a faulty variant of the except branch: the flag is set, the row is not written
PrimaryWriteFailed_FlagOnly(e) ==
    /\ use_csv_fallback' = TRUE
    /\ csv_dir' = SetupCsvFallback(csv_dir)
    /\ csvfile' = csvfile
    /\ evpc' = [evpc EXCEPT ![e] = "done"]
    /\ evPrimaryFailed' = [evPrimaryFailed EXCEPT ![e] = TRUE]

\* a faulty variant of the except branch: the row is written twice
PrimaryWriteFailed_Twice(e) ==
    /\ use_csv_fallback' = TRUE
    /\ csv_dir' = SetupCsvFallback(csv_dir)
    /\ csvfile' = LogToCsv(LogToCsv(csvfile, e), e)
    /\ evpc' = [evpc EXCEPT ![e] = "done"]
    /\ evPrimaryFailed' = [evPrimaryFailed EXCEPT ![e] = TRUE]

\* the except branch of both functions: switch to fallback, write the row
PrimaryWriteFailed(e) ==
    /\ use_csv_fallback' = TRUE
    /\ csv_dir' = SetupCsvFallback(csv_dir)
    /\ csvfile' = LogToCsv(csvfile, e)
    /\ evpc' = [evpc EXCEPT ![e] = "done"]
    /\ evPrimaryFailed' = [evPrimaryFailed EXCEPT ![e] = TRUE]

\* the call, up to its first suspension (await insert_one)
RecordCall(e, kind) ==
    /\ evpc[e] = "idle"
    /\ evKind' = [evKind EXCEPT ![e] = kind]
    /\ evSawFallback' = [evSawFallback EXCEPT ![e] = use_csv_fallback]
    /\ IF use_csv_fallback
       THEN /\ csvfile' = LogToCsv(csvfile, e)
            /\ evpc' = [evpc EXCEPT ![e] = "done"]
            /\ UNCHANGED << use_csv_fallback, csv_dir, evPrimaryFailed >>
       ELSE IF ~async_client
            \* _async_client is None: subscripting it raises before any I/O
            THEN PrimaryWriteFailed(e)
            ELSE /\ evpc' = [evpc EXCEPT ![e] = "insert"]
                 /\ UNCHANGED << use_csv_fallback, csv_dir, csvfile, evPrimaryFailed >>
    /\ primaryWhileFallback' =
          IF ~use_csv_fallback /\ async_client
          THEN StartsPrimary(primaryWhileFallback, use_csv_fallback)
          ELSE primaryWhileFallback
    /\ UNCHANGED << client, async_client, connection_attempts, primary,
                    metrics_cache, metrics_age, metrics_reply, initpc, initCalls, mpc >>
    /\ UNCHANGED << init_sleeps, health, proxyVars, rateVars >>

\* insert_one returns or raises
RecordInsertDone(e, ok) ==
    /\ evpc[e] = "insert"
    /\ IF ok
       THEN /\ primary' = primary \cup {e}
            /\ evpc' = [evpc EXCEPT ![e] = "done"]
            /\ UNCHANGED << use_csv_fallback, csv_dir, csvfile, evPrimaryFailed >>
       ELSE /\ PrimaryWriteFailed(e)
            /\ UNCHANGED primary
    /\ UNCHANGED << client, async_client, connection_attempts, metrics_cache,
                    metrics_age, metrics_reply, evKind, evSawFallback, initpc, initCalls, mpc,
                    primaryWhileFallback >>
    /\ UNCHANGED << init_sleeps, health, proxyVars, rateVars >>

\* the application records its odd events with log_telemetry and its even
\* ones with log_connection_event
RecordedBy(e) == IF e % 2 = 1 THEN "telemetry" ELSE "connection"

log_telemetry(e) ==
    \/ /\ RecordedBy(e) = "telemetry"
       /\ RecordCall(e, "telemetry")
    \/ /\ evKind[e] = "telemetry"
       /\ \E ok \in BOOLEAN : RecordInsertDone(e, ok)

log_connection_event(e) ==
    \/ /\ RecordedBy(e) = "connection"
       /\ RecordCall(e, "connection")
    \/ /\ evKind[e] = "connection"
       /\ \E ok \in BOOLEAN : RecordInsertDone(e, ok)

(***************************************************************************)
(* Database.initialize.                                                    *)
(***************************************************************************)
\* a faulty variant of the retry test: one attempt more than the cap
RetryAllowed_OneMore(attempts) == attempts <= max_connection_attempts

\* self._connection_attempts < self._max_connection_attempts
RetryAllowed(attempts) == attempts < max_connection_attempts

\* the except branch: retry after a sleep, or give up and switch to fallback;
\* slept are the sleeps of the call so far
InitializeFailed(attempts, slept) ==
    IF RetryAllowed(attempts)
    THEN /\ initpc' = "sleep"
         /\ init_sleeps' = Append(slept, RECONNECT_DELAY)
         /\ UNCHANGED << use_csv_fallback, csv_dir, csvfile >>
    ELSE /\ use_csv_fallback' = TRUE
         /\ csv_dir' = SetupCsvFallback(csv_dir)
         /\ csvfile' = LogToCsv(csvfile, ConnFailedRow)
         /\ initpc' = "idle"
         /\ init_sleeps' = slept

\* one run of the body up to the first suspension: both clients are built,
\* the server is pinged (a blocking call)
InitializeAttempt(ok, slept) ==
    /\ connection_attempts' = connection_attempts + 1
    /\ client' = TRUE
    /\ async_client' = TRUE
    /\ primaryWhileFallback' = StartsPrimary(primaryWhileFallback, use_csv_fallback)
    /\ IF ok
       THEN /\ initpc' = "schema"
            /\ init_sleeps' = slept
            /\ UNCHANGED << use_csv_fallback, csv_dir, csvfile >>
       ELSE InitializeFailed(connection_attempts + 1, slept)
    /\ UNCHANGED << primary, metrics_cache, metrics_age, metrics_reply, evpc, evKind,
                    evSawFallback, evPrimaryFailed, mpc >>
    /\ UNCHANGED << health, proxyVars, rateVars >>

\* startup_event / async_startup_check call initialize()
InitializeCall ==
    /\ initpc = "idle"
    /\ initCalls < MaxInitCalls
    /\ initCalls' = initCalls + 1
    /\ \E ok \in BOOLEAN : InitializeAttempt(ok, << >>)

\* await asyncio.sleep(2) is over: initialize() calls itself
InitializeRetry ==
    /\ initpc = "sleep"
    /\ UNCHANGED initCalls
    /\ \E ok \in BOOLEAN : InitializeAttempt(ok, init_sleeps)

\* the value line 57 stores in _use_csv_fallback
FlagAfterConnect(flag) == FALSE

\* await _initialize_db_schema() returns or raises
InitializeSchemaDone ==
    /\ initpc = "schema"
    /\ \E ok \in BOOLEAN :
         IF ok
         THEN /\ use_csv_fallback' = FlagAfterConnect(use_csv_fallback)
              \* log_connection_event("database_connected") starts its insert
              /\ initpc' = "connlog"
              /\ UNCHANGED << csv_dir, csvfile, init_sleeps >>
         ELSE InitializeFailed(connection_attempts, init_sleeps)
    /\ UNCHANGED << client, async_client, connection_attempts, primary,
                    metrics_cache, metrics_age, metrics_reply, evpc, evKind, evSawFallback,
                    evPrimaryFailed, initCalls, mpc, primaryWhileFallback >>
    /\ UNCHANGED << health, proxyVars, rateVars >>

\* the insert of the database_connected log entry returns or raises
InitializeConnLogDone ==
    /\ initpc = "connlog"
    /\ initpc' = "idle"
    /\ \E ok \in BOOLEAN :
         IF ok
         THEN /\ primary' = primary \cup {ConnectedRow}
              /\ UNCHANGED << use_csv_fallback, csv_dir, csvfile >>
         ELSE /\ use_csv_fallback' = TRUE
              /\ csv_dir' = SetupCsvFallback(csv_dir)
              /\ csvfile' = LogToCsv(csvfile, ConnectedRow)
              /\ UNCHANGED primary
    /\ UNCHANGED << client, async_client, connection_attempts, metrics_cache,
                    metrics_age, metrics_reply, evpc, evKind, evSawFallback, evPrimaryFailed,
                    initCalls, mpc, primaryWhileFallback, init_sleeps >>
    /\ UNCHANGED << health, proxyVars, rateVars >>

initialize ==
    \/ InitializeCall
    \/ InitializeRetry
    \/ InitializeSchemaDone
    \/ InitializeConnLogDone

(***************************************************************************)
(* Database.get_metrics.  A snapshot is known by its database_status and   *)
(* its requests_total; the other numbers are computed the same way.        *)
(***************************************************************************)
\* a faulty variant of the cache test: a cache of exactly 60 s is still used
CacheFresh_Inclusive(age) == age <= METRICS_TTL

\* (datetime.now() - self._metrics_last_update).total_seconds() < 60
CacheFresh(age) == age < METRICS_TTL

\* count_documents on the telemetry collection, len(...) over the rows of the file
PrimaryCount == Cardinality(primary \cap Events)
CsvCount == Cardinality({ i \in 1..Len(csvfile) : csvfile[i] \in Events })

\* lines 629-633: the cache is updated and the metrics are returned
MetricsStore(call, snapshot, source, failed) ==
    /\ metrics_cache' = snapshot
    /\ metrics_age' = 0
    /\ mpc' = "idle"
    /\ metrics_reply' = [call EXCEPT !.source = source, !.failed = failed,
                                     !.returned = snapshot, !.snapshot_age = 0]

\* the fallback branch: the CSV file is read; an error while reading is
\* logged and the numbers computed so far (none, or requests_total) are kept
MetricsFromCsv(call, source, failed) ==
    \E ok \in BOOLEAN, total \in { 0, CsvCount } :
        /\ ok => total = CsvCount
        /\ MetricsStore(call, Snapshot("fallback", total), source, failed \/ ~ok)

GetMetricsCall ==
    /\ mpc = "idle"
    /\ IF CacheFresh(metrics_age)
       THEN /\ metrics_reply' = Reply(metrics_age, metrics_cache, "cache", FALSE,
                                      metrics_cache, metrics_age)
            /\ UNCHANGED << metrics_cache, metrics_age, mpc, use_csv_fallback >>
       ELSE IF use_csv_fallback
            THEN /\ MetricsFromCsv(Reply(metrics_age, metrics_cache, "csv", FALSE,
                                         EmptySnapshot, 0), "csv", FALSE)
                 /\ UNCHANGED use_csv_fallback
            ELSE /\ mpc' = "query"
                 /\ metrics_reply' = Reply(metrics_age, metrics_cache, "primary", FALSE,
                                           EmptySnapshot, 0)
                 /\ UNCHANGED << metrics_cache, metrics_age, use_csv_fallback >>
    /\ primaryWhileFallback' =
          IF ~CacheFresh(metrics_age) /\ ~use_csv_fallback
          THEN StartsPrimary(primaryWhileFallback, use_csv_fallback)
          ELSE primaryWhileFallback
    /\ UNCHANGED << client, async_client, connection_attempts, csv_dir, csvfile,
                    primary, evpc, evKind, evSawFallback, evPrimaryFailed, initpc,
                    initCalls >>
    /\ UNCHANGED << init_sleeps, health, proxyVars, rateVars >>

\* the queries on the primary backend return or raise
GetMetricsQueryDone ==
    /\ mpc = "query"
    /\ \E ok \in BOOLEAN :
         IF ok /\ async_client
         THEN /\ MetricsStore(metrics_reply, Snapshot("connected", PrimaryCount),
                           "primary", FALSE)
              /\ primary' = primary \cup {MetricsDoc}
              /\ UNCHANGED use_csv_fallback
         ELSE /\ UNCHANGED primary
              /\ IF csv_dir
                 \* the flag is set and get_metrics() calls itself
                 THEN /\ use_csv_fallback' = TRUE
                      /\ MetricsFromCsv(metrics_reply, "primary+csv", TRUE)
                 \* the numbers computed before the query that raised are kept
                 ELSE /\ \E total \in { 0, PrimaryCount } :
                           MetricsStore(metrics_reply, Snapshot("connected", total),
                                        "primary", TRUE)
                      /\ UNCHANGED use_csv_fallback
    /\ UNCHANGED << client, async_client, connection_attempts, csv_dir, csvfile,
                    evpc, evKind, evSawFallback, evPrimaryFailed, initpc,
                    initCalls, primaryWhileFallback >>
    /\ UNCHANGED << init_sleeps, health, proxyVars, rateVars >>

\* time passes: the cache is now a second short of 60 s old, or 60 s old
Elapse(age) ==
    /\ age > metrics_age
    /\ metrics_age' = age
    /\ UNCHANGED << use_csv_fallback, client, async_client, connection_attempts,
                    csv_dir, csvfile, primary, metrics_cache, metrics_reply, evpc,
                    evKind, evSawFallback, evPrimaryFailed, initpc, initCalls, mpc,
                    primaryWhileFallback >>
    /\ UNCHANGED << init_sleeps, health, proxyVars, rateVars >>

MetricsExpire == \E age \in { METRICS_TTL - 1, METRICS_TTL } : Elapse(age)

get_metrics ==
    \/ GetMetricsCall
    \/ GetMetricsQueryDone

\* the calls that write: events are recorded while initialize() runs
StoreNext ==
    \/ \E e \in Events : log_telemetry(e)
    \/ \E e \in Events : log_connection_event(e)
    \/ initialize

\* get_metrics() calls while events are recorded and time passes
MetricsNext ==
    \/ \E e \in Events : log_telemetry(e)
    \/ \E e \in Events : log_connection_event(e)
    \/ get_metrics
    \/ MetricsExpire

(***************************************************************************)
(* GET /health (src/main.py) and Database.is_connected.                    *)
(***************************************************************************)
is_connected == ~use_csv_fallback /\ client

\* the handler's first statement is `await db.health_check()`; class Database
\* defines no health_check, the attribute lookup raises AttributeError and the
\* handler's except branch answers 503 with the status "error" in every mode
health_check ==
    /\ health' = HealthAnswer(HTTP_503_SERVICE_UNAVAILABLE, "error",
                              is_connected, use_csv_fallback)
    /\ UNCHANGED << use_csv_fallback, client, async_client, connection_attempts,
                    csv_dir, csvfile, primary, metrics_cache, metrics_age,
                    metrics_reply, evpc, evKind, evSawFallback, evPrimaryFailed,
                    initpc, initCalls, mpc, primaryWhileFallback, init_sleeps >>
    /\ UNCHANGED << proxyVars, rateVars >>

\* GET /health asked while the store starts up and records events
HealthNext ==
    \/ \E e \in Events : log_telemetry(e)
    \/ \E e \in Events : log_connection_event(e)
    \/ initialize
    \/ health_check

(***************************************************************************)
(* ProxyService (src/proxy.py).                                            *)
(***************************************************************************)
Min(a, b) == IF a < b THEN a ELSE b
Max(a, b) == IF a > b THEN a ELSE b

\* max_workers of the thread pool
MaxWorkers == Min(MAX_CONCURRENCY, ExecutorThreadLimit)

\* settings.RETRY_ATTEMPTS is read from the environment and is not validated
RetryChoices == 0..DEFAULT_RETRY_ATTEMPTS

(***************************************************************************)
(* Texts.  A prompt is known by the whitespace around it (pad), the length *)
(* of what str.strip() leaves (chars) and the number of words in it; a     *)
(* completion by its length and its number of words, or it is None.        *)
(***************************************************************************)
Prompt(pad, chars, words) == [pad |-> pad, chars |-> chars, words |-> words]

\* a faulty variant of strip(): the text is left as it is
Strip_Kept(p) == Prompt(0, p.pad + p.chars, p.words)

\* payload.prompt.strip()
Strip(p) == Prompt(0, p.chars, p.words)

\* len(payload.prompt)
Length(p) == p.pad + p.chars

\* a prompt of spaces only, and a plain one
BlankPrompt == Prompt(2, 0, 0)
PlainPrompt == Prompt(0, 8, 2)

\* the prompts of the ordinary load
Prompts == { BlankPrompt, PlainPrompt }

\* prompts around the length limit of the endpoint
BoundaryPrompts ==
    { Prompt(pad, chars, 1) : pad \in { 0, 2 },
                              chars \in { MAX_PROMPT_LENGTH - 2, MAX_PROMPT_LENGTH - 1,
                                          MAX_PROMPT_LENGTH, MAX_PROMPT_LENGTH + 1 } }

Text(chars, words) == [none |-> FALSE, chars |-> chars, words |-> words]
NoneCompletion == [none |-> TRUE, chars |-> 0, words |-> 0]
EmptyCompletion == Text(0, 0)

\* a faulty variant of the response check: nothing is refused
ResponseRejected_Never(v) == FALSE

\* proxy_request: if completion_text is None: raise ValueError
ResponseRejected(v) == v.none

\* what generate_content may return: a text, "" or None
BackendValues == { Text(12, 3), EmptyCompletion, NoneCompletion }

\* texts of every small size; w words take at least 2w - 1 characters
SmallTexts ==
    { t \in [none : { FALSE }, chars : 1..MaxChars, words : 0..MaxWords] :
          2 * t.words <= t.chars + 1 }

\* ProxyService._estimate_tokens
EstimateTokens(chars, words) ==
    IF chars = 0
    THEN 0
    ELSE LET char_based == Max(1, chars \div 4)
             word_based == Max(1, (words * 13) \div 10)
         IN  Max(1, (char_based + word_based) \div 2)

\* a faulty variant of the counts: the total leaves the prompt out
TokenCounts_CompletionOnly(p, v) ==
    LET prompt_tokens == Max(1, EstimateTokens(p.chars, p.words))
        completion_tokens ==
            IF v.chars > 0 THEN Max(1, EstimateTokens(v.chars, v.words)) ELSE 0
    IN  [prompt |-> prompt_tokens, completion |-> completion_tokens,
         total |-> completion_tokens]

\* prompt_tokens, completion_tokens and total_tokens of a completion
TokenCounts(p, v) ==
    LET prompt_tokens == Max(1, EstimateTokens(p.chars, p.words))
        completion_tokens ==
            IF v.chars > 0 THEN Max(1, EstimateTokens(v.chars, v.words)) ELSE 0
    IN  [prompt |-> prompt_tokens, completion |-> completion_tokens,
         total |-> prompt_tokens + completion_tokens]

NoTokens == [prompt |-> 0, completion |-> 0, total |-> 0]

\* Error messages are sequences of words; str.lower() works word by word.
Lower(w) ==
    CASE w = "Timeout" -> "timeout"
      [] w = "LLM" -> "llm"
      [] w = "None" -> "none"
      [] w = "Connection" -> "connection"
      [] OTHER -> w

\* a faulty variant of the test: the text is not lowered first
ContainsTimeout_CaseSensitive(msg) == \E i \in 1..Len(msg) : msg[i] = "timeout"

\* "timeout" in error_msg.lower()
ContainsTimeout(msg) == \E i \in 1..Len(msg) : Lower(msg[i]) = "timeout"

\* an error without "timeout" in its text
PlainError == [type |-> "Exception", msg |-> << "invalid", "model" >>, status |-> 0]

\* what llm_connection.generate_content may raise
BackendErrors ==
    { [type |-> "Exception", msg |-> << "gateway", "Timeout" >>, status |-> 0],
      [type |-> "Exception", msg |-> << "Connection", "refused" >>, status |-> 0],
      [type |-> "TimeoutError", msg |-> << "timed", "out" >>, status |-> 0],
      PlainError }

\* ValueError("LLM returned None response")
NoneResponseError ==
    [type |-> "ValueError", msg |-> << "LLM", "returned", "None", "response" >>,
     status |-> 0]

\* HTTPException(503, "LLM request timed out after N seconds"), raised for
\* asyncio.TimeoutError right where wait_for is awaited
AttemptTimeoutError ==
    [type |-> "HTTPException", msg |-> << "LLM", "request", "timed", "out" >>,
     status |-> HTTP_503_SERVICE_UNAVAILABLE]

\* an outcome without a completion
Outcome(kind, status, n) ==
    [kind |-> kind, status |-> status, attempt |-> n, tokens |-> NoTokens,
     completion |-> NoneCompletion]

Pending == Outcome("pending", 0, 0)

Event(type, n, err) ==
    [event_type |-> type, attempt |-> n, error_type |-> err.type, error |-> err.msg]

NoError == [type |-> "", msg |-> << >>, status |-> 0]

(***************************************************************************)
(* Request ids.                                                            *)
(***************************************************************************)
NoId == [src |-> "none", n |-> 0]

\* TelemetryMiddleware.dispatch: f"req-{int(start_time * 1000)}"
MiddlewareId(ms) == [src |-> "req", n |-> ms]

\* llm_completion: str(uuid.uuid4()), stored in request.state.request_id;
\* two calls of uuid4() give different values
EndpointId(r) == [src |-> "uuid", n |-> r]

\* a faulty variant of proxy_request: it always makes an id of its own
ProxyRequestId_Own(state_id, r) == [src |-> "uuid", n |-> r + NumRequests]

\* proxy_request: getattr(request.state, 'request_id', str(uuid.uuid4()))
ProxyRequestId(state_id, r) ==
    IF state_id # NoId THEN state_id ELSE [src |-> "uuid", n |-> r + NumRequests]

\* the exception handlers: getattr(request.state, 'request_id', str(uuid.uuid4()))
HandlerRequestId(state_id, r) ==
    IF state_id # NoId THEN state_id ELSE [src |-> "uuid", n |-> r + 2 * NumRequests]

(***************************************************************************)
(* Validation in front of the proxy.                                       *)
(***************************************************************************)
\* LlmRequest.validate_prompt_length: not v or not v.strip()
ValidatorRejects(p) == Length(p) = 0 \/ Strip(p).chars = 0

\* a faulty variant of the length test: the limit itself is refused
TooLong_Strict(p) == Length(p) >= MAX_PROMPT_LENGTH

\* llm_completion: len(payload.prompt) > 50000
TooLong(p) == Length(p) > MAX_PROMPT_LENGTH

\* proxy_request: prompt = payload.prompt.strip(); if not prompt
EmptyAfterStrip(p) == Strip(p).chars = 0

(***************************************************************************)
(* Telemetry writes of the proxy.  Every _log_llm_* helper wraps its body  *)
(* in try / except Exception and only logs the error.                      *)
(***************************************************************************)
\* the outcomes of db.log_telemetry: it returns (TRUE) or raises (FALSE)
WriteOutcomes == IF telemetry_down THEN BOOLEAN ELSE { TRUE }

\* a faulty variant of the helpers: the error of the write is raised again
LogHelperRaises_Unguarded(ok) == ~ok

\* whether a helper raises when its write had outcome ok
LogHelperRaises(ok) == FALSE

\* a faulty variant of the backoff: no cap
Backoff_NoCap(n) == n * 2

\* asyncio.sleep(min(attempt * 2, 10))
Backoff(n) == Min(n * 2, BackoffCap)

\* a faulty variant of the status: an HTTPException is classified by its text
FinalStatus_TextOnly(err) ==
    IF ContainsTimeout(err.msg)
    THEN HTTP_503_SERVICE_UNAVAILABLE
    ELSE HTTP_500_INTERNAL_SERVER_ERROR

\* the status of the HTTPException raised after the last attempt
FinalStatus(err) ==
    IF err.type = "HTTPException"
    THEN err.status
    ELSE IF ContainsTimeout(err.msg)
         THEN HTTP_503_SERVICE_UNAVAILABLE
         ELSE HTTP_500_INTERNAL_SERVER_ERROR

\* a faulty variant of the loop bound: a retry follows the last attempt as long
\* as no more than two attempts were made
LoopContinues_AtLeastTwo(n, R) == n < R \/ n < 2

\* a faulty variant of the loop bound: one attempt too many
LoopContinues_OffByOne(n, R) == n <= R

\* for attempt in range(1, RETRY_ATTEMPTS + 1) / if attempt < RETRY_ATTEMPTS:
\* after failed attempt n another attempt follows
LoopContinues(n, R) == n < R

\* a faulty variant of acquire(): it waits although one slot is free
CanAcquire_Strict(value) == value > 1
\* a faulty variant of acquire(): it never waits
CanAcquire_Always(value) == TRUE
\* a faulty variant of release(): the slot is not given back
Release_Kept(value) == value

\* asyncio.Semaphore: acquire() proceeds when the value is positive
CanAcquire(value) == value > 0
\* asyncio.Semaphore.release(), called when the async with block is left
Release(value) == value + 1

Holds(r) == acquired[r] > released[r]

\* ProxyService.initialize and the settings
ProxyInitWith(R, L, F) ==
    /\ retry_attempts = R
    /\ load = L
    /\ faults = F
    /\ sem_value = MAX_CONCURRENCY
    /\ busy = 0
    /\ abandoned = 0
    /\ rpc = [r \in Requests |-> "idle"]
    /\ attempt = [r \in Requests |-> 0]
    /\ emitted = [r \in Requests |-> << >>]
    /\ stored = [r \in Requests |-> << >>]
    /\ result = [r \in Requests |-> Pending]
    /\ sleeps = [r \in Requests |-> << >>]
    /\ acquired = [r \in Requests |-> 0]
    /\ released = [r \in Requests |-> 0]
    /\ calls = [r \in Requests |-> 0]

\* the clients and the backend: prompts P reach the proxy by the entries E,
\* the backend returns values of C, requests arrive at the milliseconds M,
\* and the telemetry store may (down) or may not raise
ClientsInitWith(P, E, C, M, down) ==
    /\ prompts = P
    /\ entries = E
    /\ completions = C
    /\ millis = M
    /\ telemetry_down = down
    /\ prompt = [r \in Requests |-> BlankPrompt]
    /\ via = [r \in Requests |-> "none"]
    /\ mw_request_id = [r \in Requests |-> NoId]
    /\ request_id = [r \in Requests |-> NoId]
    /\ direct_request = [r \in Requests |-> NoId]
    /\ state_request_id = [r \in Requests |-> NoId]
    /\ response_id = [r \in Requests |-> NoId]

\* run_in_executor: an idle worker thread takes the call at once, otherwise
\* the call waits in the executor's queue
Submit(r) ==
    IF busy < MaxWorkers
    THEN /\ busy' = busy + 1
         /\ calls' = [calls EXCEPT ![r] = @ + 1]
         /\ rpc' = [rpc EXCEPT ![r] = "running"]
    ELSE /\ rpc' = [rpc EXCEPT ![r] = "queued"]
         /\ UNCHANGED << busy, calls >>

\* the call leaves the async with block: the slot is given back
LeaveSemaphore(r) ==
    /\ sem_value' = Release(sem_value)
    /\ released' = [released EXCEPT ![r] = @ + 1]

\* the events evs are handed to the log helpers; oks are the outcomes of the writes
Emit(r, evs, oks) ==
    /\ emitted' = [emitted EXCEPT ![r] = @ \o evs]
    /\ stored' = [stored EXCEPT ![r] = @ \o oks]

\* the request ends before the loop with an exception of the given kind
Refuse(r, kind, status) ==
    /\ result' = [result EXCEPT ![r] = Outcome(kind, status, 0)]
    /\ rpc' = [rpc EXCEPT ![r] = "done"]
    /\ UNCHANGED << emitted, stored >>

\* an exception of a log helper leaves proxy_request from inside the loop
Escape(r) ==
    /\ result' = [result EXCEPT ![r] =
          Outcome("telemetry_error", HTTP_500_INTERNAL_SERVER_ERROR, attempt[r])]
    /\ rpc' = [rpc EXCEPT ![r] = "done"]
    /\ LeaveSemaphore(r)
    /\ UNCHANGED << emitted, stored, sleeps, attempt >>

\* a faulty variant of the middleware: call_next runs after a rejection too
Passed_Any(g) == g # "none"

\* RateLimitMiddleware.dispatch reached return await call_next(request)
Passed(g) == g = "admitted"

\* The request arrives.  By HTTP it passes TelemetryMiddleware.dispatch, the
\* validator of LlmRequest and the checks of llm_completion before
\* proxy_request runs its own validation (lines 98-130) and logs
\* request_start.
Enter(r) ==
    /\ rpc[r] = "idle"
    /\ r <= load
    /\ \E p \in prompts, e \in entries, ms \in millis, ok \in WriteOutcomes :
         \* the rate limiter, when installed, is the outermost middleware
         /\ (e = "http" /\ limited) => Passed(gate[r])
         /\ prompt' = [prompt EXCEPT ![r] = p]
         /\ via' = [via EXCEPT ![r] = e]
         /\ mw_request_id' =
               [mw_request_id EXCEPT ![r] = IF e = "http" THEN MiddlewareId(ms) ELSE NoId]
         \* the middleware stores its id (middleware.py 26), llm_completion
         \* replaces it (main.py 335) once the payload has passed the validator
         /\ state_request_id' = [state_request_id EXCEPT ![r] =
               IF e # "http" THEN NoId
               ELSE IF ValidatorRejects(p) THEN MiddlewareId(ms) ELSE EndpointId(r)]
         /\ IF e = "http" /\ ValidatorRejects(p)
            THEN /\ Refuse(r, "validation_error", HTTP_422_UNPROCESSABLE_ENTITY)
                 /\ UNCHANGED request_id
            ELSE IF e = "http" /\ TooLong(p)
            THEN /\ Refuse(r, "prompt_too_long", HTTP_400_BAD_REQUEST)
                 /\ UNCHANGED request_id
            ELSE /\ request_id' = [request_id EXCEPT ![r] =
                       ProxyRequestId(state_request_id'[r], r)]
                 /\ IF EmptyAfterStrip(p)
                    THEN Refuse(r, "http_error", HTTP_400_BAD_REQUEST)
                    ELSE IF LogHelperRaises(ok)
                    THEN Refuse(r, "telemetry_error", HTTP_500_INTERNAL_SERVER_ERROR)
                    ELSE /\ Emit(r, << Event("llm_request_start", 0, NoError) >>, << ok >>)
                         /\ rpc' = [rpc EXCEPT ![r] = "waiting"]
                         /\ UNCHANGED result
    /\ UNCHANGED << configVars, sem_value, busy, abandoned, attempt, sleeps,
                    acquired, released, calls, direct_request, response_id >>
    /\ UNCHANGED << storeVars, rateVars >>

\* line 133: the semaphore is entered; line 134: the loop starts
Acquire(r) ==
    /\ rpc[r] = "waiting"
    /\ CanAcquire(sem_value)
    /\ acquired' = [acquired EXCEPT ![r] = @ + 1]
    /\ IF retry_attempts < 1
       \* range(1, RETRY_ATTEMPTS + 1) is empty: the function returns None
       THEN /\ sem_value' = Release(sem_value - 1)
            /\ released' = [released EXCEPT ![r] = @ + 1]
            /\ rpc' = [rpc EXCEPT ![r] = "done"]
            /\ result' = [result EXCEPT ![r] = Outcome("returned_none", 0, 0)]
            /\ UNCHANGED << attempt, busy, calls >>
       ELSE /\ sem_value' = sem_value - 1
            /\ attempt' = [attempt EXCEPT ![r] = 1]
            /\ Submit(r)
            /\ UNCHANGED << released, result >>
    /\ UNCHANGED << configVars, abandoned, emitted, stored, sleeps, entryVars,
                    direct_request, response_id >>
    /\ UNCHANGED << storeVars, rateVars >>

\* a worker thread becomes free and takes a queued call
WorkerStart(r) ==
    /\ rpc[r] = "queued"
    /\ busy < MaxWorkers
    /\ busy' = busy + 1
    /\ calls' = [calls EXCEPT ![r] = @ + 1]
    /\ rpc' = [rpc EXCEPT ![r] = "running"]
    /\ UNCHANGED << configVars, sem_value, abandoned, attempt, emitted, stored,
                    result, sleeps, acquired, released, entryVars, direct_request, response_id >>
    /\ UNCHANGED << storeVars, rateVars >>

\* a faulty variant of the success path: the response reports attempts_total
\* as its attempt
AttemptSucceeded_ReportsTotal(r, value) ==
    \E ok \in WriteOutcomes :
        /\ Emit(r, << Event("llm_completion_success", attempt[r], NoError) >>, << ok >>)
        /\ result' = [result EXCEPT ![r] =
              [kind |-> IF value.chars = 0 THEN "success_empty" ELSE "success",
               status |-> HTTP_200_OK, attempt |-> retry_attempts,
               tokens |-> TokenCounts(Strip(prompt[r]), value), completion |-> value]]
        /\ LeaveSemaphore(r)
        /\ rpc' = [rpc EXCEPT ![r] = "done"]
        /\ UNCHANGED << sleeps, attempt >>

\* lines 160-248: the completion is logged and returned
AttemptSucceeded(r, value) ==
    \E ok \in WriteOutcomes :
        IF LogHelperRaises(ok)
        THEN Escape(r)
        ELSE /\ Emit(r, << Event("llm_completion_success", attempt[r], NoError) >>,
                     << ok >>)
             /\ result' = [result EXCEPT ![r] =
                   [kind |-> IF value.chars = 0 THEN "success_empty" ELSE "success",
                    status |-> HTTP_200_OK, attempt |-> attempt[r],
                    tokens |-> TokenCounts(Strip(prompt[r]), value), completion |-> value]]
             /\ LeaveSemaphore(r)
             /\ rpc' = [rpc EXCEPT ![r] = "done"]
             /\ UNCHANGED << sleeps, attempt >>

\* a faulty variant of the except branches: every failed attempt is logged as
\* the failure of the request
AttemptFailed_EachFinal(r, err) ==
    \E ok1, ok2 \in WriteOutcomes :
        IF LoopContinues(attempt[r], retry_attempts)
        THEN /\ ok2 = ok1
             /\ Emit(r, << Event("llm_request_failure", attempt[r], err) >>, << ok1 >>)
             /\ sleeps' = [sleeps EXCEPT ![r] = Append(@, Backoff(attempt[r]))]
             /\ rpc' = [rpc EXCEPT ![r] = "backoff"]
             /\ UNCHANGED << result, sem_value, released, attempt >>
        ELSE /\ Emit(r, << Event("llm_attempt_failure", attempt[r], err),
                          Event("llm_request_failure", retry_attempts, err) >>,
                     << ok1, ok2 >>)
             /\ result' = [result EXCEPT ![r] =
                   Outcome("http_error", FinalStatus(err), attempt[r])]
             /\ LeaveSemaphore(r)
             /\ rpc' = [rpc EXCEPT ![r] = "done"]
             /\ UNCHANGED << sleeps, attempt >>

\* lines 279-334: except Exception as e
AttemptFailed(r, err) ==
    \E ok1, ok2 \in WriteOutcomes :
        IF LogHelperRaises(ok1)
        THEN Escape(r)
        ELSE IF LoopContinues(attempt[r], retry_attempts)
        THEN /\ ok2 = ok1
             /\ Emit(r, << Event("llm_attempt_failure", attempt[r], err) >>, << ok1 >>)
             /\ sleeps' = [sleeps EXCEPT ![r] = Append(@, Backoff(attempt[r]))]
             /\ rpc' = [rpc EXCEPT ![r] = "backoff"]
             /\ UNCHANGED << result, sem_value, released, attempt >>
        ELSE IF LogHelperRaises(ok2)
        THEN Escape(r)
        ELSE /\ Emit(r, << Event("llm_attempt_failure", attempt[r], err),
                          Event("llm_request_failure", retry_attempts, err) >>,
                     << ok1, ok2 >>)
             /\ result' = [result EXCEPT ![r] =
                   Outcome("http_error", FinalStatus(err), attempt[r])]
             /\ LeaveSemaphore(r)
             /\ rpc' = [rpc EXCEPT ![r] = "done"]
             /\ UNCHANGED << sleeps, attempt >>

\* generate_content returns or raises in its worker thread
BackendReturn(r) ==
    /\ rpc[r] = "running"
    /\ busy' = busy - 1
    /\ \/ \E v \in completions :
            IF ResponseRejected(v)
            THEN AttemptFailed(r, NoneResponseError)
            ELSE AttemptSucceeded(r, v)
       \/ \E err \in faults :
            \/ AttemptFailed(r, err)
            \* from Python 3.11 on asyncio.TimeoutError is the builtin
            \* TimeoutError, and the except clause around wait_for catches it
            \/ /\ err.type = "TimeoutError"
               /\ AttemptFailed(r, AttemptTimeoutError)
    /\ UNCHANGED << configVars, abandoned, acquired, calls, entryVars, direct_request, response_id >>
    /\ UNCHANGED << storeVars, rateVars >>

\* wait_for gives up after LLM_TIMEOUT seconds: a queued call is cancelled,
\* a running one cannot be interrupted and keeps its worker thread
AttemptTimeout(r) ==
    /\ rpc[r] \in { "queued", "running" }
    /\ abandoned' = IF rpc[r] = "running" THEN abandoned + 1 ELSE abandoned
    /\ AttemptFailed(r, AttemptTimeoutError)
    /\ UNCHANGED << configVars, busy, acquired, calls, entryVars, direct_request, response_id >>
    /\ UNCHANGED << storeVars, rateVars >>

\* an abandoned call ends in its worker thread
AbandonedFinish ==
    /\ abandoned > 0
    /\ abandoned' = abandoned - 1
    /\ busy' = busy - 1
    /\ UNCHANGED << configVars, sem_value, rpc, attempt, emitted, stored, result,
                    sleeps, acquired, released, calls, entryVars, direct_request, response_id >>
    /\ UNCHANGED << storeVars, rateVars >>

\* asyncio.sleep(...) is over: continue with the next attempt
BackoffDone(r) ==
    /\ rpc[r] = "backoff"
    /\ attempt' = [attempt EXCEPT ![r] = @ + 1]
    /\ Submit(r)
    /\ UNCHANGED << configVars, sem_value, abandoned, emitted, stored, result,
                    sleeps, acquired, released, entryVars, direct_request, response_id >>
    /\ UNCHANGED << storeVars, rateVars >>

\* the task is cancelled at a suspension point (CancelledError is no Exception)
Cancel(r) ==
    /\ rpc[r] \in { "waiting", "queued", "running", "backoff" }
    /\ IF Holds(r)
       THEN LeaveSemaphore(r)
       ELSE UNCHANGED << sem_value, released >>
    /\ abandoned' = IF rpc[r] = "running" THEN abandoned + 1 ELSE abandoned
    /\ rpc' = [rpc EXCEPT ![r] = "done"]
    /\ result' = [result EXCEPT ![r] = Outcome("cancelled", 0, attempt[r])]
    /\ UNCHANGED << configVars, busy, attempt, emitted, stored, sleeps, acquired,
                    calls, entryVars, direct_request, response_id >>
    /\ UNCHANGED << storeVars, rateVars >>

\* The response goes back.  An HTTPException or a validation error is turned
\* into a body with a request_id by its exception handler; then
\* TelemetryMiddleware.dispatch, the finally block, logs the direct_request
\* event with the id the middleware made.
Respond(r) ==
    /\ rpc[r] = "done"
    /\ via[r] = "http"
    /\ direct_request[r] = NoId
    /\ response_id' = [response_id EXCEPT ![r] =
          IF result[r].status = HTTP_200_OK THEN NoId
          ELSE HandlerRequestId(state_request_id[r], r)]
    /\ direct_request' = [direct_request EXCEPT ![r] = mw_request_id[r]]
    /\ UNCHANGED << configVars, sem_value, busy, abandoned, rpc, attempt, emitted,
                    stored, result, sleeps, acquired, released, calls, entryVars >>
    /\ UNCHANGED << storeVars, rateVars >>

proxy_request(r) ==
    \/ Enter(r)
    \/ Acquire(r)
    \/ WorkerStart(r)
    \/ BackendReturn(r)
    \/ AttemptTimeout(r)
    \/ BackoffDone(r)
    \/ Cancel(r)

ProxyNext ==
    \/ \E r \in Requests : proxy_request(r)
    \/ \E r \in Requests : Respond(r)
    \/ AbandonedFinish

(***************************************************************************)
(* RateLimitMiddleware (src/middleware.py).  Time is counted in ticks,     *)
(* TicksPerSecond of them to the second, and never runs backwards.         *)
(***************************************************************************)
\* request.client.host of the clients
ClientKeys == { "10.0.0.1", "10.0.0.2" }

\* no entry in self.clients
NoBucket == [present |-> FALSE, requests |-> 0, window_start |-> 0]

\* a faulty variant of the entry: the request that makes it is not counted
Bucket_CountFromZero(n, t) == [present |-> TRUE, requests |-> n - 1, window_start |-> t]

\* {"requests": n, "window_start": t}
Bucket(n, t) == [present |-> TRUE, requests |-> n, window_start |-> t]

\* a client's entry after a request and the status of the answer
Decision(bucket, status) == [bucket |-> bucket, status |-> status]

WindowTicks == WINDOW_SECONDS * TicksPerSecond

\* the paths dispatch lets through without counting
ExemptPaths == { "/health", "/public/health", "/docs", "/openapi.json", "/redoc" }

\* the completion endpoint
ApiPath == "/api/llm/completion"

\* the health and status endpoints of the service
HealthPaths == { "/health", "/public/health", "/public/status" }

\* a faulty variant of the window test: the window ends one tick early
InWindow_Short(t, window_start) == t - window_start < WindowTicks - 1

\* current_time - window_start < 60
InWindow(t, window_start) == t - window_start < WindowTicks

\* a faulty variant of the eviction test: a window is evicted one tick early
Expired_Early(t, window_start) == t - window_start >= WindowTicks - 1

\* a faulty variant of the eviction test: a window that has just elapsed stays
Expired_Late(t, window_start) == t - window_start > WindowTicks

\* _cleanup: current_time - data["window_start"] >= 60
Expired(t, window_start) == t - window_start >= WindowTicks

\* a faulty variant of the hint: the seconds elapsed instead of those left
RetryAfter_Elapsed(t, window_start) == (t - window_start) \div TicksPerSecond

\* 60 - int(current_time - window_start)
RetryAfter(t, window_start) ==
    WINDOW_SECONDS - ((t - window_start) \div TicksPerSecond)

\* a faulty variant of _cleanup: when several clients have an entry, all
\* entries are deleted
Cleanup_Crowded(t) ==
    [k \in ClientKeys |->
        IF \/ clients[k].present /\ Expired(t, clients[k].window_start)
           \/ Cardinality({ j \in ClientKeys : clients[j].present }) > 1
        THEN NoBucket
        ELSE clients[k]]

\* self.clients after _cleanup(current_time)
Cleanup(t) ==
    [k \in ClientKeys |->
        IF clients[k].present /\ Expired(t, clients[k].window_start)
        THEN NoBucket
        ELSE clients[k]]

\* the time and the answer of a request
Answer(t, status, hint) == [t |-> t, status |-> status, retry_after |-> hint]

NoAnswer == Answer(0, 0, 0)

\* what is remembered of a client's latest request: its time and answer, the
\* client's entry before and after it, and the answer to the request before
Arrival(t, status, hint, before, after, prev, path) ==
    [t |-> t, status |-> status, retry_after |-> hint, before |-> before,
     after |-> after, prev |-> prev, path |-> path]

NoArrival == Arrival(0, 0, 0, NoBucket, NoBucket, NoAnswer, "")

\* the times between two requests: none, one tick, one tick less than the
\* window, the window, and the hint of the client's latest rejection
Delays(c) ==
    { 0, 1, WindowTicks - 1, WindowTicks } \cup
    ( IF latest[c].status = HTTP_429_TOO_MANY_REQUESTS
      THEN { latest[c].retry_after * TicksPerSecond }
      ELSE {} )

RateInitWith(L, P, installed) ==
    /\ rate_limit = L
    /\ clients = [k \in ClientKeys |-> NoBucket]
    /\ now = 0
    /\ arrivals = 0
    /\ latest = [k \in ClientKeys |-> NoArrival]
    /\ paths = P
    /\ limited = installed
    /\ gate = [r \in Requests |-> "none"]
    /\ admitted = [k \in ClientKeys |-> << >>]
    /\ alone = [k \in ClientKeys |-> Decision(NoBucket, 0)]

\* a faulty variant of the rejection: the rejected request is counted
AfterRejection_Counted(bucket) == Bucket(bucket.requests + 1, bucket.window_start)

\* the client's entry when dispatch returns the 429: the return comes before
\* requests += 1
AfterRejection(bucket) == bucket

\* dispatch for a request at time t on a map that holds nothing but the
\* client's own entry
DispatchAlone(entry, t) ==
    LET kept == IF entry.present /\ Expired(t, entry.window_start)
                THEN NoBucket
                ELSE entry
    IN  IF kept.present /\ InWindow(t, kept.window_start)
        THEN IF kept.requests >= rate_limit
             THEN Decision(AfterRejection(kept), HTTP_429_TOO_MANY_REQUESTS)
             ELSE Decision(Bucket(kept.requests + 1, kept.window_start), HTTP_200_OK)
        ELSE Decision(Bucket(1, t), HTTP_200_OK)

\* of the times in seq, those less than 60 s before t
Recent(seq, t) == SelectSeq(seq, LAMBDA x : t - x < WindowTicks)

\* the body of RateLimitMiddleware.dispatch, up to call_next, for a request
\* of client c for the given path that arrives d ticks after the previous
\* request (of any client)
Limit(c, d, path) ==
    /\ limited
    /\ arrivals < NumArrivals
    /\ arrivals' = arrivals + 1
    /\ now' = now + d
    /\ UNCHANGED << rate_limit, paths, limited >>
    /\ alone' = IF path \in ExemptPaths
                THEN alone
                ELSE [alone EXCEPT ![c] = DispatchAlone(@.bucket, now + d)]
    /\ LET t == now + d
           kept == Cleanup(t)
           prev == Answer(latest[c].t, latest[c].status, latest[c].retry_after)
           recent == [k \in ClientKeys |-> Recent(admitted[k], t)]
           admit(bucket) ==
               /\ clients' = [kept EXCEPT ![c] = bucket]
               /\ admitted' = [recent EXCEPT ![c] = Append(@, t)]
               /\ latest' = [latest EXCEPT ![c] =
                     Arrival(t, HTTP_200_OK, 0, clients[c], bucket, prev, path)]
       IN  IF path \in ExemptPaths
           THEN /\ UNCHANGED clients
                /\ admitted' = recent
                /\ latest' = [latest EXCEPT ![c] =
                      Arrival(t, HTTP_200_OK, 0, clients[c], clients[c], prev, path)]
           ELSE IF kept[c].present
           THEN IF InWindow(t, kept[c].window_start)
                THEN IF kept[c].requests >= rate_limit
                     THEN /\ clients' = [kept EXCEPT ![c] = AfterRejection(@)]
                          /\ admitted' = recent
                          /\ latest' = [latest EXCEPT ![c] =
                                Arrival(t, HTTP_429_TOO_MANY_REQUESTS,
                                        RetryAfter(t, kept[c].window_start),
                                        clients[c], AfterRejection(kept[c]), prev,
                                        path)]
                     ELSE admit(Bucket(kept[c].requests + 1, kept[c].window_start))
                ELSE admit(Bucket(1, t))
           ELSE admit(Bucket(1, t))

\* RateLimitMiddleware.dispatch for a request that does not go to the proxy
dispatch(c, d, path) ==
    /\ Limit(c, d, path)
    /\ UNCHANGED gate
    /\ UNCHANGED << storeVars, proxyVars >>

\* RateLimitMiddleware.dispatch for request r of the completion endpoint:
\* a rejected request is answered by the middleware itself
Admit(r, c, d) ==
    /\ rpc[r] = "idle"
    /\ r <= load
    /\ gate[r] = "none"
    /\ Limit(c, d, ApiPath)
    /\ IF latest'[c].status = HTTP_429_TOO_MANY_REQUESTS
       THEN /\ gate' = [gate EXCEPT ![r] = "rejected"]
            /\ result' = [result EXCEPT ![r] =
                  Outcome("rate_limited", HTTP_429_TOO_MANY_REQUESTS, 0)]
       ELSE /\ gate' = [gate EXCEPT ![r] = "admitted"]
            /\ UNCHANGED result
    /\ UNCHANGED << configVars, sem_value, busy, abandoned, rpc, attempt, emitted,
                    stored, sleeps, acquired, released, calls, entryVars,
                    direct_request, response_id >>
    /\ UNCHANGED storeVars

RateNext ==
    \E c \in ClientKeys : \E d \in Delays(c) : \E path \in paths : dispatch(c, d, path)

\* no rate limiter installed (DEBUG)
RateQuiet == RateInitWith(DEFAULT_RATE_LIMIT, {}, FALSE)

\* the store before it is used, with the fallback directory in place
StoreQuiet == StoreInit /\ csv_dir = TRUE

\* the proxy when no request is sent
ProxyQuiet ==
    /\ ProxyInitWith(DEFAULT_RETRY_ATTEMPTS, 0, {})
    /\ ClientsInitWith({}, {}, {}, {}, FALSE)

\* the telemetry store alone
InitStore ==
    /\ StoreInit
    /\ ProxyQuiet
    /\ RateQuiet

SpecStore == InitStore /\ [][StoreNext]_vars

SpecHealth == InitStore /\ [][HealthNext]_vars

\* the store after a startup that connected at the first attempt, with or
\* without the fallback directory
StoreConnected ==
    /\ use_csv_fallback = FALSE
    /\ client = TRUE
    /\ async_client = TRUE
    /\ connection_attempts = 1
    /\ csv_dir \in BOOLEAN
    /\ csvfile = << >>
    /\ primary = { ConnectedRow }
    /\ metrics_cache = EmptySnapshot
    /\ metrics_age = METRICS_TTL
    /\ metrics_reply = NoReply
    /\ evpc = [e \in Events |-> "idle"]
    /\ evKind = [e \in Events |-> "none"]
    /\ evSawFallback = [e \in Events |-> FALSE]
    /\ evPrimaryFailed = [e \in Events |-> FALSE]
    /\ initpc = "idle"
    /\ initCalls = 1
    /\ mpc = "idle"
    /\ primaryWhileFallback = FALSE
    /\ init_sleeps = << >>
    /\ health = NoHealth

\* the metrics of the connected store
InitMetrics ==
    /\ StoreConnected
    /\ ProxyQuiet
    /\ RateQuiet

SpecMetrics == InitMetrics /\ [][MetricsNext]_vars

\* concurrent requests: every request is sent, the retry count is small
InitProxy ==
    /\ \E R \in { 0, 1, 2 } : ProxyInitWith(R, NumRequests, { PlainError })
    /\ ClientsInitWith(Prompts, { "http" }, BackendValues, { 0 }, FALSE)
    /\ StoreQuiet
    /\ RateQuiet

SpecProxy == InitProxy /\ [][ProxyNext]_vars

\* one request, every retry count up to the default, every backend error,
\* by HTTP or by a direct call, with a telemetry store that may fail
InitRetry ==
    /\ \E R \in RetryChoices : ProxyInitWith(R, 1, BackendErrors)
    /\ \E down \in BOOLEAN :
          ClientsInitWith(Prompts, { "http", "direct" }, BackendValues, { 0, 1 }, down)
    /\ StoreQuiet
    /\ RateQuiet

SpecRetry == InitRetry /\ [][ProxyNext]_vars

\* one request with a long retry loop
InitBackoff ==
    /\ ProxyInitWith(LongRetry, 1, { PlainError })
    /\ ClientsInitWith({ PlainPrompt }, { "http" }, BackendValues, { 0 }, FALSE)
    /\ StoreQuiet
    /\ RateQuiet

SpecBackoff == InitBackoff /\ [][ProxyNext]_vars

\* one request by HTTP, prompts around the length limit, texts of every small size
InitEndpoint ==
    /\ ProxyInitWith(2, 1, { PlainError })
    /\ ClientsInitWith(BoundaryPrompts \cup Prompts, { "http" },
                       SmallTexts \cup { EmptyCompletion }, { 0 }, FALSE)
    /\ StoreQuiet
    /\ RateQuiet

SpecEndpoint == InitEndpoint /\ [][ProxyNext]_vars

\* the rate limiter alone, with every limit up to MaxRateLimit
InitRate ==
    /\ \E L \in 1..MaxRateLimit : RateInitWith(L, { ApiPath }, TRUE)
    /\ StoreQuiet
    /\ ProxyQuiet

SpecRate == InitRate /\ [][RateNext]_vars

\* the completion endpoint behind the rate limiter: two requests, one
\* allowed per minute and client
InitGate ==
    /\ ProxyInitWith(2, 2, { PlainError })
    /\ ClientsInitWith({ PlainPrompt }, { "http" }, { Text(12, 3) }, { 0 }, FALSE)
    /\ \E L \in 1..MaxRateLimit : RateInitWith(L, { ApiPath }, TRUE)
    /\ StoreQuiet

GateNext ==
    \/ ProxyNext
    \/ \E r \in Requests, c \in ClientKeys : \E d \in Delays(c) : Admit(r, c, d)

SpecGate == InitGate /\ [][GateNext]_vars

\* the rate limiter under requests for the health and status endpoints, one
\* request allowed per minute and client
InitPaths ==
    /\ RateInitWith(1, HealthPaths, TRUE)
    /\ StoreQuiet
    /\ ProxyQuiet

SpecPaths == InitPaths /\ [][RateNext]_vars

(***************************************************************************)
(* Properties of the telemetry store (SpecStore).                          *)
(***************************************************************************)
\* C1: every event whose primary write raised, and every event recorded
\* while the store was already in fallback mode, has its row in the
\* fallback file once the call is over: no such event is dropped.
C1_NoEventDropped ==
    \A e \in Events :
        (evpc[e] = "done" /\ (evPrimaryFailed[e] \/ evSawFallback[e])) => InFile(e)

\* one event's primary insert raised, another was recorded in fallback mode,
\* and both rows are in the file
C1_Witness ==
    \E e1, e2 \in Events :
        /\ e1 # e2
        /\ evpc[e1] = "done" /\ evPrimaryFailed[e1] /\ ~evSawFallback[e1]
        /\ evpc[e2] = "done" /\ evSawFallback[e2]
        /\ InFile(e1) /\ InFile(e2)

\* C2: once the store is in fallback mode no later call (initialize,
\* record, recordLifecycleEvent, getAggregateMetrics) starts an operation
\* on the primary backend.
C2_NoPrimaryOnceFallback == primaryWhileFallback = FALSE

\* C3: the fallback flag, once set, is never cleared again.
C3_FallbackNeverCleared == [][use_csv_fallback => use_csv_fallback']_vars

(***************************************************************************)
(* Properties of the request proxy.                                        *)
(***************************************************************************)
\* C4 (SpecProxy): the semaphore is released exactly as often as it was
\* acquired, whichever way a request ends (success, timeout, exception,
\* exhausted retries, cancellation): a finished request holds nothing, the
\* free slots are the maximum less the holders, and when every request has
\* finished the free slots equal MAX_CONCURRENCY.
C4_SemaphoreBalanced ==
    /\ \A r \in Requests :
          /\ released[r] <= acquired[r]
          /\ acquired[r] <= 1
          /\ rpc[r] = "done" => released[r] = acquired[r]
    /\ sem_value = MAX_CONCURRENCY - Cardinality({ r \in Requests : acquired[r] > released[r] })
    /\ (\A r \in Requests : rpc[r] \in { "idle", "done" }) => sem_value = MAX_CONCURRENCY

\* every request has finished after holding a slot, one by cancellation and
\* one by exhausting its retries, and all slots are free again
C4_Witness ==
    /\ \A r \in Requests : rpc[r] = "done" /\ acquired[r] = 1 /\ released[r] = 1
    /\ \E r \in Requests : result[r].kind = "cancelled"
    /\ \E r \in Requests : result[r].kind = "http_error" /\ result[r].attempt = 2
    /\ sem_value = MAX_CONCURRENCY

\* C5 (SpecProxy): at most MAX_CONCURRENCY requests hold a slot at any
\* time, and the backend is invoked only for a request that holds one: a
\* request whose call is queued or running in the executor holds a slot, and
\* the running calls that were not abandoned are at most the holders.
C5_ConcurrencyBound ==
    /\ Cardinality({ r \in Requests : Holds(r) }) <= MAX_CONCURRENCY
    /\ sem_value >= 0
    /\ \A r \in Requests : rpc[r] \in { "queued", "running", "backoff" } => Holds(r)
    /\ \A r \in Requests : calls[r] > 0 => acquired[r] > 0

\* all slots are taken, a call is running and another request waits for a slot
C5_Witness ==
    /\ Cardinality({ r \in Requests : Holds(r) }) = MAX_CONCURRENCY
    /\ \E r \in Requests : rpc[r] = "running" /\ Holds(r)
    /\ \E r \in Requests : rpc[r] = "waiting" /\ ~Holds(r)

\* C6: every request that enters the proxy has logged at least one terminal
\* event (llm_completion_success or llm_request_failure) when it is over, on
\* every exit path.
C6_TerminalEventOnEveryExit ==
    \A r \in Requests :
        rpc[r] = "done" =>
            \E i \in 1..Len(emitted[r]) :
                emitted[r][i].event_type \in { "llm_completion_success", "llm_request_failure" }

\* C7 (SpecRetry): when every invocation of the backend raised, the request
\* fails after exactly RETRY_ATTEMPTS invocations, no more and no fewer.
C7_ExactlyRetryAttemptsCalls ==
    \A r \in Requests :
        ( /\ rpc[r] = "done"
          /\ result[r].kind = "http_error"
          /\ result[r].attempt >= 1
          /\ \A i \in 1..Len(emitted[r]) :
                emitted[r][i].event_type = "llm_attempt_failure"
                    => emitted[r][i].error_type \in { "Exception", "TimeoutError" } )
        => /\ calls[r] = retry_attempts
           /\ Cardinality({ i \in 1..Len(emitted[r]) :
                              emitted[r][i].event_type = "llm_attempt_failure" }) = retry_attempts

\* a request with the default retry count has failed, each of its three
\* invocations of the backend having raised
C7_Witness ==
    \E r \in Requests :
        /\ rpc[r] = "done"
        /\ result[r].kind = "http_error"
        /\ retry_attempts = DEFAULT_RETRY_ATTEMPTS
        /\ calls[r] = DEFAULT_RETRY_ATTEMPTS
        /\ \A i \in 1..Len(emitted[r]) :
              emitted[r][i].event_type = "llm_attempt_failure"
                  => emitted[r][i].error_type = "Exception"

\* C8 (SpecBackoff): after failed attempt k < RETRY_ATTEMPTS the request
\* sleeps min(2k, 10) seconds before attempt k+1 starts, whether attempt k
\* timed out or raised; there is no sleep after the final attempt.
C8_BackoffSchedule ==
    \A r \in Requests :
        /\ \A k \in 1..Len(sleeps[r]) :
              /\ sleeps[r][k] = (IF 2 * k < 10 THEN 2 * k ELSE 10)
              /\ k < retry_attempts
        /\ rpc[r] = "backoff" => Len(sleeps[r]) = attempt[r]
        /\ rpc[r] \in { "queued", "running" } => Len(sleeps[r]) = attempt[r] - 1
        /\ (rpc[r] = "done" /\ result[r].kind = "http_error" /\ result[r].attempt >= 1)
              => /\ result[r].attempt = retry_attempts
                 /\ Len(sleeps[r]) = retry_attempts - 1

\* all attempts of a long retry loop have failed, one of them by timeout:
\* the sleeps went 2, 4, 6, 8, 10, 10 and none followed the last attempt
C8_Witness ==
    \E r \in Requests :
        /\ rpc[r] = "done"
        /\ result[r].kind = "http_error"
        /\ sleeps[r] = << 2, 4, 6, 8, 10, 10 >>
        /\ \E i \in 1..Len(emitted[r]) :
              /\ emitted[r][i].event_type = "llm_attempt_failure"
              /\ emitted[r][i].attempt < retry_attempts
              /\ emitted[r][i].error_type = "HTTPException"

\* C9, as stated: when the backend raises on every attempt the failure
\* returned after the last attempt is ServiceUnavailable (503), whatever the
\* error was.
C9_AlwaysServiceUnavailable ==
    \A r \in Requests :
        ( /\ rpc[r] = "done"
          /\ result[r].kind = "http_error"
          /\ result[r].attempt >= 1
          /\ \A i \in 1..Len(emitted[r]) :
                emitted[r][i].event_type = "llm_attempt_failure"
                    => emitted[r][i].error_type \in { "Exception", "TimeoutError" } )
        => result[r].status = 503

\* C9, amended (SpecRetry): when the backend raises on every attempt (an
\* error that is neither a timeout error nor an HTTPException), the failure
\* returned after the last attempt is ServiceUnavailable (503) if the text
\* of the last error contains "timeout" in any letter case, and
\* InternalError (500) otherwise.
C9_StatusFollowsLastErrorText ==
    \A r \in Requests :
        ( /\ rpc[r] = "done"
          /\ result[r].kind = "http_error"
          /\ result[r].attempt >= 1
          /\ \A i \in 1..Len(emitted[r]) :
                emitted[r][i].event_type = "llm_attempt_failure"
                    => emitted[r][i].error_type = "Exception" )
        => LET last == emitted[r][Len(emitted[r])]
           IN  /\ last.error = << "gateway", "Timeout" >> => result[r].status = 503
               /\ last.error \in { << "Connection", "refused" >>, << "invalid", "model" >> }
                     => result[r].status = 500
               /\ result[r].status \in { 500, 503 }

\* the backend raised on every attempt, the last error reading "gateway
\* Timeout" after an earlier one without the word: the failure is 503
C9_Witness ==
    \E r \in Requests :
        /\ rpc[r] = "done"
        /\ result[r].kind = "http_error"
        /\ result[r].status = 503
        /\ calls[r] = 2
        /\ emitted[r][Len(emitted[r])].error = << "gateway", "Timeout" >>
        /\ emitted[r][Len(emitted[r])].error_type = "Exception"
        /\ emitted[r][2].error = << "invalid", "model" >>
        /\ emitted[r][2].error_type = "Exception"

C11_TimeoutTaggedTimeoutError ==
    \A r \in Requests :
        \A i \in 1..Len(emitted[r]) :
            ( /\ emitted[r][i].event_type = "llm_attempt_failure"
              /\ emitted[r][i].error = << "LLM", "request", "timed", "out" >> )
            => emitted[r][i].error_type = "TimeoutError"

\* C12 (SpecRetry): when the backend fails on the first k attempts
\* (0 <= k < RETRY_ATTEMPTS) and succeeds on attempt k+1, the caller gets a
\* success whose attempt is k+1, and the request's events hold exactly k
\* attempt_failure events (those of attempts 1..k, in order), exactly one
\* completion_success event and no request_failure event.
C12_SuccessAfterFailures ==
    \A r \in Requests :
        (rpc[r] = "done" /\ result[r].kind \in { "success", "success_empty" })
        => LET n == Len(emitted[r])
               k == Cardinality({ i \in 1..n :
                                    emitted[r][i].event_type = "llm_attempt_failure" })
           IN  /\ result[r].status = 200
               /\ result[r].attempt = k + 1
               /\ k < retry_attempts
               /\ n = k + 2
               /\ emitted[r][1].event_type = "llm_request_start"
               /\ \A i \in 1..k :
                     /\ emitted[r][i + 1].event_type = "llm_attempt_failure"
                     /\ emitted[r][i + 1].attempt = i
               /\ emitted[r][n].event_type = "llm_completion_success"
               /\ emitted[r][n].attempt = k + 1

\* the backend raised on attempts 1 and 2 and returned a text on attempt 3
C12_Witness ==
    \E r \in Requests :
        /\ rpc[r] = "done"
        /\ result[r].kind = "success"
        /\ result[r].attempt = 3
        /\ calls[r] = 3
        /\ emitted[r][2].error_type = "Exception"
        /\ emitted[r][3].error_type = "Exception"
        /\ emitted[r][4].event_type = "llm_completion_success"

\* C13: all telemetry events of one request carry the same request id: the
\* direct_request event of the surrounding middleware has the id of the
\* events the proxy logged (request_start, attempt_failure,
\* completion_success, request_failure).
C13_OneRequestId ==
    \A r \in Requests :
        (direct_request[r] # NoId /\ Len(emitted[r]) > 0)
        => direct_request[r] = request_id[r]

\* C14 (SpecRetry): a request whose prompt is empty after trimming is
\* refused at once as invalid input (400 by proxy_request, 422 by the
\* validator of the HTTP endpoint): it never waits for or takes a slot, the
\* backend is never invoked, nothing is retried and no event is logged by
\* the proxy, so no attempt_failure either.
C14_EmptyPromptRefused ==
    \A r \in Requests :
        (rpc[r] # "idle" /\ prompt[r].chars = 0)
        => /\ rpc[r] = "done"
           /\ result[r].kind = (IF via[r] = "http" THEN "validation_error" ELSE "http_error")
           /\ result[r].status = (IF via[r] = "http" THEN 422 ELSE 400)
           /\ acquired[r] = 0
           /\ calls[r] = 0
           /\ attempt[r] = 0
           /\ sleeps[r] = << >>
           /\ emitted[r] = << >>

\* proxy_request was called with a prompt of two spaces and raised 400
C14_Witness ==
    \E r \in Requests :
        /\ rpc[r] = "done"
        /\ via[r] = "direct"
        /\ prompt[r].pad = 2
        /\ prompt[r].chars = 0
        /\ result[r].status = 400
        /\ acquired[r] = 0
        /\ sem_value = MAX_CONCURRENCY

\* C15 as stated (SpecEndpoint): a prompt whose trimmed length exceeds
\* 50,000 is refused as invalid input without a slot or a backend call, and
\* a prompt whose trimmed length is at most 50,000 is not refused for its
\* length.
C15_TrimmedLengthDecides ==
    \A r \in Requests :
        (rpc[r] # "idle" /\ via[r] = "http")
        => /\ Strip(prompt[r]).chars > MAX_PROMPT_LENGTH
              => /\ rpc[r] = "done"
                 /\ result[r].kind = "prompt_too_long"
                 /\ result[r].status = 400
                 /\ acquired[r] = 0
                 /\ calls[r] = 0
           /\ Strip(prompt[r]).chars <= MAX_PROMPT_LENGTH
              => result[r].kind # "prompt_too_long"

\* C15 amended (SpecEndpoint): the endpoint measures the prompt as it was
\* sent, surrounding whitespace included: a prompt longer than 50,000 is
\* refused with 400 without a slot, a backend call or a proxy event, and a
\* prompt of at most 50,000 is not refused for its length.
C15_UntrimmedLengthDecides ==
    \A r \in Requests :
        (rpc[r] # "idle" /\ via[r] = "http")
        => /\ Length(prompt[r]) > MAX_PROMPT_LENGTH
              => /\ rpc[r] = "done"
                 /\ result[r].kind = "prompt_too_long"
                 /\ result[r].status = 400
                 /\ acquired[r] = 0
                 /\ calls[r] = 0
                 /\ emitted[r] = << >>
           /\ Length(prompt[r]) <= MAX_PROMPT_LENGTH
              => result[r].kind # "prompt_too_long"

\* a prompt of 49,999 characters between two spaces was refused as too long
C15_Witness ==
    \E r \in Requests :
        /\ rpc[r] = "done"
        /\ via[r] = "http"
        /\ result[r].kind = "prompt_too_long"
        /\ Strip(prompt[r]).chars < MAX_PROMPT_LENGTH
        /\ Length(prompt[r]) = MAX_PROMPT_LENGTH + 1
        /\ acquired[r] = 0

\* C16 as stated (SpecProxy): a backend response that is None or the empty
\* string is never returned as a success.
C16_NoneOrEmptyNeverReturned ==
    \A r \in Requests :
        (rpc[r] = "done" /\ result[r].kind \in { "success", "success_empty" })
        => /\ ~result[r].completion.none
           /\ result[r].completion.chars > 0

\* C16 amended (SpecProxy): only None is refused.  A None response is never
\* returned: it is logged as an attempt_failure (ValueError) and retried
\* with a backoff while attempts remain.  An empty string is returned as a
\* success with 200 and zero completion tokens.
C16_OnlyNoneRefused ==
    \A r \in Requests :
        /\ (rpc[r] = "done" /\ result[r].kind \in { "success", "success_empty" })
           => /\ ~result[r].completion.none
              /\ result[r].status = HTTP_200_OK
              /\ emitted[r][Len(emitted[r])].event_type = "llm_completion_success"
              /\ result[r].completion.chars = 0
                 <=> result[r].kind = "success_empty"
              /\ result[r].completion.chars = 0
                 => result[r].tokens.completion = 0
        /\ \A i \in 1..Len(emitted[r]) :
              (/\ emitted[r][i].event_type = "llm_attempt_failure"
               /\ emitted[r][i].error_type = NoneResponseError.type
               /\ emitted[r][i].attempt < retry_attempts)
              => Len(sleeps[r]) >= emitted[r][i].attempt

\* the first attempt got None and was retried, the second got "" and the
\* request succeeded with it
C16_Witness ==
    \E r \in Requests :
        /\ rpc[r] = "done"
        /\ result[r].kind = "success_empty"
        /\ result[r].attempt = 2
        /\ result[r].completion = EmptyCompletion
        /\ \E i \in 1..Len(emitted[r]) :
              /\ emitted[r][i].event_type = "llm_attempt_failure"
              /\ emitted[r][i].error_type = NoneResponseError.type
              /\ emitted[r][i].attempt = 1

\* C17 (SpecEndpoint): a successful response to a non-empty prompt with a
\* non-empty completion reports at least one prompt token, at least one
\* completion token, and a total that is the sum of the two.
C17_TokenCounts ==
    \A r \in Requests :
        (/\ rpc[r] = "done"
         /\ result[r].kind \in { "success", "success_empty" }
         /\ Strip(prompt[r]).chars > 0
         /\ result[r].completion.chars > 0)
        => /\ result[r].tokens.prompt >= 1
           /\ result[r].tokens.completion >= 1
           /\ result[r].tokens.total =
                 result[r].tokens.prompt + result[r].tokens.completion

\* a prompt of two words was answered with a text of three words: two
\* tokens each, four in total
C17_Witness ==
    \E r \in Requests :
        /\ rpc[r] = "done"
        /\ result[r].kind = "success"
        /\ prompt[r] = PlainPrompt
        /\ result[r].completion.words = 3
        /\ result[r].tokens = [prompt |-> 2, completion |-> 2, total |-> 4]

\* C18 (SpecRetry): failing telemetry writes, at any of the emission points
\* and even when the primary and the fallback store both raise, never change
\* what proxy_request does: no exception of a log helper escapes, every
\* emission point is still passed, a success is returned as a success after
\* the same retries, and an exhausted request fails with its 500 or 503.
C18_TelemetryFailuresMasked ==
    \A r \in Requests :
        /\ result[r].kind # "telemetry_error"
        /\ Len(stored[r]) = Len(emitted[r])
        /\ (rpc[r] = "done" /\ result[r].kind \in { "success", "success_empty" })
           => /\ result[r].status = HTTP_200_OK
              /\ Len(sleeps[r]) = result[r].attempt - 1
              /\ Len(emitted[r]) = result[r].attempt + 1
        /\ (rpc[r] = "done" /\ result[r].kind = "http_error" /\ result[r].attempt > 0)
           => /\ result[r].status \in { HTTP_500_INTERNAL_SERVER_ERROR,
                                       HTTP_503_SERVICE_UNAVAILABLE }
              /\ result[r].attempt = retry_attempts
              /\ Len(sleeps[r]) = retry_attempts - 1
              /\ Len(emitted[r]) = retry_attempts + 2

\* none of the three events of a request could be written, and the request
\* succeeded on its second attempt
C18_Witness ==
    \E r \in Requests :
        /\ telemetry_down
        /\ rpc[r] = "done"
        /\ result[r].kind = "success"
        /\ result[r].attempt = 2
        /\ Len(stored[r]) = 3
        /\ \A i \in 1..Len(stored[r]) : ~stored[r][i]

\* C19 (SpecRate): for every limit L >= 1 and every client key, a request
\* that arrives less than 60 s after the start of the key's window is
\* admitted and counted while fewer than L requests were counted in the
\* window, and is rejected with 429, the window unchanged, once L were
\* counted; a request that arrives with no window, or 60 s or more after
\* the window started, is admitted and starts a new window with count 1.
\* So a window never counts more than L requests.
C19_WindowAdmitsUpToLimit ==
    \A c \in ClientKeys :
        /\ clients[c].present
           => /\ clients[c].requests >= 1
              /\ clients[c].requests <= rate_limit
              /\ clients[c].window_start <= now
        /\ latest[c] # NoArrival
           => LET a == latest[c]
                  b == a.before
                  open == b.present /\ a.t - b.window_start < WindowTicks
              IN  /\ (open /\ b.requests < rate_limit)
                     => /\ a.status = HTTP_200_OK
                        /\ a.after = Bucket(b.requests + 1, b.window_start)
                  /\ (open /\ b.requests >= rate_limit)
                     => /\ a.status = HTTP_429_TOO_MANY_REQUESTS
                        /\ a.after = b
                  /\ ~open
                     => /\ a.status = HTTP_200_OK
                        /\ a.after = Bucket(1, a.t)

\* one client was rejected in its full window, and another, whose window
\* was full too, came back 60 s after its window had started and was
\* admitted into a new window
C19_Witness ==
    \E c, k \in ClientKeys :
        /\ latest[c].status = HTTP_429_TOO_MANY_REQUESTS
        /\ latest[c].before = Bucket(rate_limit, latest[c].before.window_start)
        /\ latest[k].status = HTTP_200_OK
        /\ latest[k].before.present
        /\ latest[k].before.requests = rate_limit
        /\ latest[k].t - latest[k].before.window_start = WindowTicks
        /\ clients[k] = Bucket(1, latest[k].t)

\* C20 (SpecRate): a rejected request carries a retry_after that is the
\* time left in the window, in whole seconds rounded up, so always between
\* 1 and 60; and a request of the same key that arrives that many seconds
\* (or more) after the rejection is admitted.
C20_RetryAfterHint ==
    \A c \in ClientKeys :
        LET a == latest[c]
            left == WindowTicks - (a.t - a.before.window_start)
        IN  /\ a.status = HTTP_429_TOO_MANY_REQUESTS
               => /\ a.before.present
                  /\ a.retry_after >= 1
                  /\ a.retry_after <= WINDOW_SECONDS
                  /\ a.retry_after * TicksPerSecond >= left
                  /\ (a.retry_after - 1) * TicksPerSecond < left
            /\ (/\ a.prev.status = HTTP_429_TOO_MANY_REQUESTS
                /\ a.t - a.prev.t >= a.prev.retry_after * TicksPerSecond)
               => a.status = HTTP_200_OK

\* a client was rejected half a second before its window ended, was told to
\* retry after 1 second, did so and was admitted
C20_Witness ==
    \E c \in ClientKeys :
        /\ latest[c].prev.status = HTTP_429_TOO_MANY_REQUESTS
        /\ latest[c].prev.retry_after = 1
        /\ latest[c].t - latest[c].prev.t = TicksPerSecond
        /\ latest[c].status = HTTP_200_OK
        /\ clients[c] = Bucket(1, latest[c].t)

\* C21 (SpecPaths): a request for /health, /public/health or /public/status
\* is never rejected by the rate limiter, whatever the client's count, and
\* leaves the buckets as they were.
C21_HealthPathsExempt ==
    \A c \in ClientKeys :
        latest[c].path \in HealthPaths
        => /\ latest[c].status = HTTP_200_OK
           /\ latest[c].after = latest[c].before

\* C22 (SpecRate): after the limiter has processed a non-exempt request at
\* time t, its map holds no bucket whose window has elapsed
\* (t - window_start >= 60): every bucket is the one its key started less
\* than 60 s ago, so there are never more buckets than keys that started a
\* window in the last 60 seconds.
C22_NoElapsedBucket ==
    LET held == { k \in ClientKeys : clients[k].present }
        recent == { k \in ClientKeys :
                      /\ latest[k].after.present
                      /\ now - latest[k].after.window_start < WindowTicks }
    IN  /\ \A k \in held :
              /\ now - clients[k].window_start < WindowTicks
              /\ clients[k].window_start = latest[k].after.window_start
        /\ Cardinality(held) <= Cardinality(recent)

\* the request of one client, 60 s after another client's window had
\* started, evicted that client's bucket
C22_Witness ==
    \E c, k \in ClientKeys :
        /\ c # k
        /\ latest[c].t = now
        /\ clients[c].present
        /\ latest[k].after.present
        /\ now - latest[k].after.window_start = WindowTicks
        /\ ~clients[k].present

\* C23 (SpecGate): the rate limiter decides before the proxy runs: the
\* proxy handles only requests the limiter has admitted, and a request the
\* limiter rejects is answered 429 and never reaches proxy_request, so it
\* takes no concurrency slot, causes no backend call and logs no event.
C23_LimiterBeforeProxy ==
    \A r \in Requests :
        /\ (limited /\ rpc[r] # "idle") => gate[r] = "admitted"
        /\ gate[r] = "rejected"
           => /\ rpc[r] = "idle"
              /\ via[r] = "none"
              /\ result[r].status = HTTP_429_TOO_MANY_REQUESTS
              /\ acquired[r] = 0
              /\ calls[r] = 0
              /\ emitted[r] = << >>

\* of two requests of one client the first was admitted and answered by the
\* backend, the second was rejected
C23_Witness ==
    \E r, q \in Requests :
        /\ gate[r] = "admitted"
        /\ rpc[r] = "done"
        /\ result[r].kind = "success"
        /\ calls[r] = 1
        /\ gate[q] = "rejected"
        /\ result[q].status = HTTP_429_TOO_MANY_REQUESTS
        /\ calls[q] = 0

\* C24 (SpecStore): under every interleaving of log_telemetry and
\* log_connection_event calls, the fallback file, once it exists, has
\* exactly one header row and it is the first row; every row after it is
\* one whole event, no event has two rows, and every event recorded in
\* fallback mode or after its primary write failed has its row when its
\* call is over.
C24_FallbackFileWellFormed ==
    /\ csvfile # << >>
       => /\ csvfile[1] = HeaderRow
          /\ \A i \in 2..Len(csvfile) :
                /\ csvfile[i] # HeaderRow
                /\ csvfile[i] \in Events \cup { ConnFailedRow, ConnectedRow }
          /\ \A i, j \in 2..Len(csvfile) :
                (csvfile[i] = csvfile[j] /\ csvfile[i] \in Events) => i = j
    /\ \A e \in Events :
          (evpc[e] = "done" /\ (evPrimaryFailed[e] \/ evSawFallback[e]))
          => Cardinality({ i \in 1..Len(csvfile) : csvfile[i] = e }) = 1

\* a log_telemetry call and a log_connection_event call that ran
\* concurrently on the primary backend both failed, and the file holds the
\* header and their two rows
C24_Witness ==
    /\ Len(csvfile) = 3
    /\ csvfile[1] = HeaderRow
    /\ \E e1, e2 \in Events :
          /\ evKind[e1] = "telemetry" /\ evKind[e2] = "connection"
          /\ evPrimaryFailed[e1] /\ evPrimaryFailed[e2]
          /\ ~evSawFallback[e1] /\ ~evSawFallback[e2]
          /\ csvfile[2] \in { e1, e2 } /\ csvfile[3] \in { e1, e2 }
          /\ csvfile[2] # csvfile[3]

\* Database.initialize() with the calls that record events, under a fair
\* event loop: a task that can run is run
SpecStartup == InitStore /\ [][StoreNext]_vars /\ WF_vars(initialize)

\* C25 (SpecStartup): a call of initialize() makes at most 3 connection
\* attempts, with a sleep of 2 seconds before each attempt after the first;
\* when its last attempt fails the store is in fallback mode; and every
\* call ends, with the store either connected (clients built, flag clear)
\* or in fallback mode.
C25_BoundedReconnect ==
    /\ [](/\ Len(init_sleeps) <= max_connection_attempts - 1
          /\ \A i \in 1..Len(init_sleeps) : init_sleeps[i] = RECONNECT_DELAY
          /\ initpc = "sleep" => connection_attempts < max_connection_attempts
          /\ initCalls = 1
             => connection_attempts =
                   Len(init_sleeps) + (IF initpc = "sleep" THEN 0 ELSE 1))
    /\ [][(/\ initpc' = "idle"
           /\ initpc # "idle" \/ connection_attempts' # connection_attempts)
          => /\ use_csv_fallback' \/ (client' /\ async_client')
             /\ (initpc # "connlog") => use_csv_fallback']_vars
    /\ (initpc # "idle") ~> (initpc = "idle")

\* the first call failed three times, slept twice for 2 seconds, and left
\* the store in fallback mode with the failure logged to the file
C25_Witness ==
    /\ initCalls = 1
    /\ initpc = "idle"
    /\ connection_attempts = max_connection_attempts
    /\ init_sleeps = << RECONNECT_DELAY, RECONNECT_DELAY >>
    /\ use_csv_fallback
    /\ InFile(ConnFailedRow)

\* C26 (SpecStore): get_metrics() only reads: no step of it changes the
\* connection mode (the fallback flag).
C26_MetricsKeepMode ==
    [][(mpc # "idle" \/ mpc' # "idle") => use_csv_fallback' = use_csv_fallback]_vars

C28_FailureGivesErrorSnapshot ==
    (mpc = "idle" /\ metrics_reply.failed)
    => metrics_reply.returned = Snapshot("error", 0)


\* C29: the health check does not fail: every answer of GET /health is a
\* result, "healthy" exactly when the store was connected and "degraded"
\* exactly when it was in fallback mode.  The handler calls db.health_check,
\* which class Database does not define, so every answer is the 503 "error"
\* of the handler's except branch.
C29_HealthReportsMode ==
    health.asked =>
        /\ health.status_code = HTTP_200_OK
        /\ health.status \in { "healthy", "degraded" }
        /\ (health.status = "healthy") <=> health.connected
        /\ (health.status = "degraded") <=> health.fallback


\* C30: every failure returned to the caller of a proxied request carries a
\* request id, and it is the id the proxy put on the telemetry events of
\* that request.
C30_FailureCarriesRequestId ==
    \A r \in Requests :
        (direct_request[r] # NoId /\ result[r].status # HTTP_200_OK)
        => /\ response_id[r] # NoId
           /\ Len(emitted[r]) > 0 => response_id[r] = request_id[r]

\* a request by HTTP failed with 503 after the proxy had logged events, and
\* the body names the id of llm_completion
C30_Witness ==
    \E r \in Requests :
        /\ direct_request[r] # NoId
        /\ result[r].status = HTTP_503_SERVICE_UNAVAILABLE
        /\ Len(emitted[r]) > 1
        /\ response_id[r] = EndpointId(r)
        /\ response_id[r] = request_id[r]


\* C31: the worker of an attempt that timed out is free from the timeout on:
\* no worker thread is held by an abandoned call, so no attempt waits in the
\* executor's queue behind calls that were given up.
C31_AbandonedCallsFreeWorkers ==
    /\ abandoned = 0
    /\ \A r \in Requests : rpc[r] = "queued" => busy - abandoned = MaxWorkers


\* two requests by HTTP that may arrive within the same millisecond or one
\* millisecond apart
InitIds ==
    /\ ProxyInitWith(2, 2, { PlainError })
    /\ ClientsInitWith({ PlainPrompt }, { "http" }, { Text(12, 3) }, { 0, 1 }, FALSE)
    /\ StoreQuiet
    /\ RateQuiet

SpecIds == InitIds /\ [][ProxyNext]_vars

\* C32 (SpecIds): no two requests are given the same request id, neither by
\* the middleware, whose id is the only one of a request whose endpoint
\* assigns none, nor by the proxy.
C32_RequestIdsUnique ==
    \A r1, r2 \in Requests :
        r1 # r2 =>
            /\ (mw_request_id[r1] # NoId /\ mw_request_id[r2] # NoId)
               => mw_request_id[r1] # mw_request_id[r2]
            /\ (request_id[r1] # NoId /\ request_id[r2] # NoId)
               => request_id[r1] # request_id[r2]


\* C33 as claimed: no client has more than rate_limit requests admitted
\* within any 60 seconds.
C33_LimitInEveryInterval ==
    \A c \in ClientKeys : Len(admitted[c]) <= rate_limit

\* C33 (SpecRate), amended: the limit holds for each window, counted from
\* the window's start; of the requests admitted less than 60 seconds before
\* any moment, up to rate_limit - 1 can belong to the window before and
\* rate_limit to the current one, so fewer than 2 * rate_limit are admitted
\* within any 60 seconds.
C33_LimitPerWindow ==
    \A c \in ClientKeys :
        /\ Len(admitted[c]) <= 2 * rate_limit - 1
        /\ clients[c].present
           => /\ Len(SelectSeq(admitted[c], LAMBDA x : x >= clients[c].window_start))
                    = clients[c].requests
              /\ clients[c].requests <= rate_limit

\* with a limit of 2, a client had 3 requests admitted within 60 seconds
C33_Witness ==
    \E c \in ClientKeys :
        /\ rate_limit = 2
        /\ Len(admitted[c]) = 3
        /\ clients[c] = Bucket(2, now)


\* the positions of the terminal events among the events of request r
Terminals(r) ==
    { i \in 1..Len(emitted[r]) :
        emitted[r][i].event_type \in { "llm_completion_success", "llm_request_failure" } }

C35_AttemptsBoundedAndOrdered ==
    /\ [](\A r \in Requests :
            /\ calls[r] <= attempt[r]
            /\ attempt[r] <= retry_attempts
            /\ calls[r] <= retry_attempts
            /\ rpc[r] \in { "queued", "running", "backoff" } => attempt[r] >= 1)
    /\ [][\A r \in Requests :
            /\ attempt'[r] \in { attempt[r], attempt[r] + 1 }
            /\ calls'[r] \in { calls[r], calls[r] + 1 }
            /\ calls'[r] # calls[r]
               => /\ rpc'[r] = "running"
                  /\ calls'[r] <= attempt'[r]
            /\ rpc[r] = "done"
               => /\ calls'[r] = calls[r]
                  /\ attempt'[r] = attempt[r]
                  /\ rpc'[r] = "done"]_vars

\* the first invocation was cut off by the timeout, the second returned a
\* text: the request succeeded on attempt 2 after two invocations
C35_Witness ==
    \E r \in Requests :
        /\ rpc[r] = "done"
        /\ result[r].kind = "success"
        /\ result[r].attempt = 2
        /\ calls[r] = 2
        /\ emitted[r][2].error = << "LLM", "request", "timed", "out" >>


\* two requests by HTTP for the slots of the semaphore, two attempts each
InitLive ==
    /\ ProxyInitWith(2, 2, { PlainError })
    /\ ClientsInitWith({ PlainPrompt }, { "http" }, { Text(12, 3) }, { 0 }, FALSE)
    /\ StoreQuiet
    /\ RateQuiet

\* The event loop runs every task that can go on: a waiter of the semaphore
\* is woken when a slot is free, wait_for ends with the call's result or
\* with its timeout, asyncio.sleep ends.
SpecLive ==
    /\ InitLive
    /\ [][ProxyNext]_vars
    /\ \A r \in Requests :
          /\ WF_vars(Acquire(r))
          /\ WF_vars(BackendReturn(r) \/ AttemptTimeout(r))
          /\ WF_vars(BackoffDone(r))

\* C36 (SpecLive): every request that has passed validation and waits for
\* the semaphore gets a slot, unless it is cancelled while it waits, and
\* comes to its end with a success, a failure or its cancellation; when it
\* has ended it holds no slot.
C36_NoRequestWaitsForever ==
    /\ \A r \in Requests :
          (rpc[r] = "waiting") ~> (acquired[r] = 1 \/ result[r].kind = "cancelled")
    /\ \A r \in Requests :
          (rpc[r] = "waiting") ~>
              ( /\ rpc[r] = "done"
                /\ result[r].kind \in { "success", "http_error", "cancelled" } )
    /\ [](\A r \in Requests : rpc[r] = "done" => released[r] = acquired[r])

\* a request waits for the only slot while the request that holds it has
\* its second attempt queued behind its own abandoned call
C36_Witness ==
    \E r, q \in Requests :
        /\ rpc[r] = "waiting"
        /\ sem_value = 0
        /\ rpc[q] = "queued"
        /\ attempt[q] = 2
        /\ abandoned = 1


\* C37 (SpecRate): every entry of the limiter's map, after any sequence of
\* requests, has a count between 1 and rate_limit: the entry a request
\* leaves behind for its client, and the entries of the other clients.
C37_CountInRange ==
    \A c \in ClientKeys :
        /\ clients[c].present => clients[c].requests \in 1..rate_limit
        /\ latest[c].after.present => latest[c].after.requests \in 1..rate_limit
        /\ ~clients[c].present => clients[c] = NoBucket

\* with a limit of 2, one client's entry is full and has just caused a
\* rejection while the other client's entry counts one request
C37_Witness ==
    \E c, k \in ClientKeys :
        /\ rate_limit = 2
        /\ clients[c].present /\ clients[c].requests = 2
        /\ latest[c].status = HTTP_429_TOO_MANY_REQUESTS
        /\ clients[k].present /\ clients[k].requests = 1


\* C38 (SpecRate): a request the limiter rejects leaves its client's entry
\* as it was, count and window start; however many requests are rejected,
\* the window ends 60 s after it started and the client's next request
\* after that is admitted.
C38_RejectionLeavesBucket ==
    /\ [][\A c \in ClientKeys :
            (latest'[c] # latest[c] /\ latest'[c].status = HTTP_429_TOO_MANY_REQUESTS)
            => /\ clients[c].present
               /\ clients'[c] = clients[c]
               /\ latest'[c].before = clients[c]
               /\ latest'[c].after = clients[c]]_vars
    /\ [](\A c \in ClientKeys :
            ( /\ latest[c].prev.status = HTTP_429_TOO_MANY_REQUESTS
              /\ latest[c].before.present
              /\ latest[c].t - latest[c].before.window_start >= WindowTicks )
            => latest[c].status = HTTP_200_OK)

\* a client was rejected twice in a row, one tick apart, and its entry still
\* has the window start and the count it had before
C38_Witness ==
    \E c \in ClientKeys :
        /\ latest[c].status = HTTP_429_TOO_MANY_REQUESTS
        /\ latest[c].prev.status = HTTP_429_TOO_MANY_REQUESTS
        /\ latest[c].t = latest[c].prev.t + 1
        /\ clients[c] = Bucket(rate_limit, clients[c].window_start)
        /\ clients[c].window_start < latest[c].prev.t


\* C39 (SpecRate): what the limiter answers a client, and the entry the
\* request leaves, are what they would be had the requests of the other
\* clients never been made; all the others can do to a client's entry is
\* delete it, and only once its window has elapsed.
C39_OtherClientsDoNotMatter ==
    \A c \in ClientKeys :
        /\ (latest[c] # NoArrival /\ latest[c].path \notin ExemptPaths)
           => /\ latest[c].status = alone[c].status
              /\ latest[c].after = alone[c].bucket
        /\ clients[c] # alone[c].bucket
           => /\ clients[c] = NoBucket
              /\ Expired(now, alone[c].bucket.window_start)

\* a client was rejected; later a request of the other client deleted its
\* elapsed entry, and its own next request found no entry and was admitted
C39_Witness ==
    \E c, k \in ClientKeys :
        /\ c # k
        /\ latest[c].prev.status = HTTP_429_TOO_MANY_REQUESTS
        /\ latest[c].before = NoBucket
        /\ latest[c].status = HTTP_200_OK
        /\ latest[k].t > latest[c].prev.t
        /\ latest[k].t < latest[c].t


\* the number of rows of event e in the fallback file
RowsOf(e) == Cardinality({ i \in 1..Len(csvfile) : csvfile[i] = e })

\* C40 (SpecStore): an event is kept in one store only.  No event is in the
\* primary store and in the fallback file, none has two rows in the file;
\* a recorded event whose insert returned is in the primary store alone,
\* one whose insert raised or that was recorded in fallback mode has its one
\* row in the file, however the calls interleave around the switch.
C40_ExactlyOneStore ==
    \A e \in Events :
        /\ RowsOf(e) <= 1
        /\ ~(e \in primary /\ InFile(e))
        /\ evpc[e] # "done" => (e \notin primary /\ RowsOf(e) = 0)
        /\ evpc[e] = "done"
           => IF evPrimaryFailed[e] \/ evSawFallback[e]
              THEN RowsOf(e) = 1 /\ e \notin primary
              ELSE RowsOf(e) = 0 /\ e \in primary

\* one event's insert raised and its row is in the file, while the insert
\* of another, started before the switch, is still under way; the primary
\* store holds a document
C40_Witness ==
    \E e1, e2 \in Events :
        /\ evpc[e1] = "done" /\ evPrimaryFailed[e1] /\ ~evSawFallback[e1]
        /\ RowsOf(e1) = 1
        /\ evpc[e2] = "insert" /\ ~evSawFallback[e2]
        /\ use_csv_fallback
        /\ primary # {}

=============================================================================
